---- MODULE Spec2Model ----
(***************************************************************************)
(* Outreach campaign state machine of lead-automation-system1/backend:     *)
(* EmailService (start_campaign, _process_follow_ups, handle_reply),       *)
(* PaymentService.handle_webhook and the lead sheet of SheetsService.      *)
(*                                                                         *)
(* Time is counted in whole days.  Spec runs every handler as one atomic   *)
(* step (the handlers called one after another); SpecConc runs the         *)
(* scheduler thread's tick and the web thread's reply handling as the      *)
(* separate threads they are, interleaved at their blocking calls.         *)
(***************************************************************************)
EXTENDS Integers, Sequences, FiniteSets, TLC

VARIABLES
    sheet,             \* ids of the lead rows in the spreadsheet
    now,               \* datetime.now(), in days
    active_campaigns,  \* EmailService.active_campaigns: lead id -> campaign record
    status,            \* sheet column N (Status) of every lead row
    last_note,         \* the line update_lead appended last to column R (Notes)
    lastOp,            \* history: the handler (or thread step) that ran last
    tickPc,            \* scheduler thread: where _process_follow_ups stands
    tickNow,           \* scheduler thread: the local `now` of the running tick
    tickItems,         \* scheduler thread: list(active_campaigns.items()) still to visit
    tickCur,           \* scheduler thread: the (lead_id, campaign) being processed
    replyPc,           \* web thread: where handle_reply stands
    replyCur,          \* web thread: the locals of the running handle_reply
    links,             \* the payment links minted at the payment processors
    deals,             \* PaymentManager: rows of the Deals worksheet
    lead_status,       \* PaymentManager: Status column of the Leads worksheet
    config,            \* PaymentService / PaymentManager: what construction set up
    outreach,          \* GoogleSheetsManager: rows of the Outreach worksheet
    inbox,             \* leads whose reply the social platform holds
    lead_columns       \* header row of the Leads worksheet

vars == <<sheet, now, active_campaigns, status, last_note, lastOp,
          tickPc, tickNow, tickItems, tickCur, replyPc, replyCur,
          links, deals, lead_status, config, outreach, inbox, lead_columns>>

threadVars == <<tickPc, tickNow, tickItems, tickCur, replyPc, replyCur>>

payVars == <<links, deals, lead_status, config>>

socialVars == <<outreach, inbox, lead_columns>>

----------------------------------------------------------------------------
(* Bounds of the model *)

\* the clock stops at this day when the sheet holds one lead
MaxDay == 13

\* the clock stops at this day when the sheet holds several leads
MaxDayMany == 3

\* in the interleaved specification campaigns are started up to this day
MaxStartDay == 0

\* payment links minted in one behaviour of the web application
MaxLinks == 2

\* payment links minted in one behaviour of PaymentManager
MaxManagerLinks == 1

----------------------------------------------------------------------------
(* Program constants *)

\* "max_follow_ups": 3 in the record start_campaign creates
MAX_FOLLOW_UPS == 3

\* timedelta(days=3), in start_campaign and _process_follow_ups
FOLLOW_UP_DAYS == 3

----------------------------------------------------------------------------
(* The lead sheet: the rows SheetsService.get_leads returns, US_Leads      *)
(* before India_Leads.  The columns read by the campaign code are id,      *)
(* email and country.                                                      *)

AllLeads == {"L1", "L2"}

\* a row of US_Leads whose email cell is empty
NoEmailLead == "L0"

Email(l) ==
    CASE l = "L0" -> ""
      [] l = "L1" -> "l1@example.com"
      [] OTHER -> "l2@example.com"

Country(l) == IF l = "L2" THEN "IN" ELSE "US"

\* position of the row in the list get_leads returns
RowIndex(l) ==
    CASE l = "L0" -> 0
      [] l = "L1" -> 1
      [] OTHER -> 2

\* a sender address no row of the sheet holds
UnknownEmail == "stranger@example.com"

NoLead == "none"

Horizon == IF Cardinality(sheet) <= 1 THEN MaxDay ELSE MaxDayMany

----------------------------------------------------------------------------
(* Templates and region choice *)

TemplateStages ==
    {"initial", "follow_up_1", "follow_up_2", "follow_up_3", "call_invite", "pricing_info"}

\* _get_email_templates: templates.get(sequence_type, templates["initial"])
GetEmailTemplates(sequence_type) ==
    IF sequence_type \in TemplateStages THEN sequence_type ELSE "initial"

\* mutant: the US set for every country
CountryCodeAlwaysUs(country) == "us"

\* country_code = "us" if country == "US" else "india"
CountryCode(country) == IF country = "US" THEN "us" ELSE "india"

\* f"follow_up_{campaign['follow_up_count']}"
SequenceType(n) ==
    CASE n = 1 -> "follow_up_1"
      [] n = 2 -> "follow_up_2"
      [] n = 3 -> "follow_up_3"
      [] OTHER -> "follow_up_other"

\* one call of _send_email: recipient, message and the outcome of the SMTP send
Message(l, stage, template_set, ok) ==
    [lead |-> l, to |-> Email(l), stage |-> stage, template_set |-> template_set, ok |-> ok]

\* a message rendered from the template table for the lead's country
Dispatch(l, sequence_type, ok) ==
    Message(l, GetEmailTemplates(sequence_type), CountryCode(Country(l)), ok)

FollowUpStages == {"follow_up_1", "follow_up_2", "follow_up_3"}

----------------------------------------------------------------------------
(* Inbound replies *)

\* bodies of inbound replies, lower-cased and split into words
Bodies == { <<"lets", "schedule", "a", "call">>, <<"not", "interested">> }

call_keywords == {"call", "meeting", "schedule", "calendly", "available", "time"}

\* wants_call = any(keyword in body.lower() for keyword in call_keywords)
WantsCall(body) == \E i \in 1..Len(body) : body[i] \in call_keywords

\* matching_leads[0]: the first row whose email equals the sender
MatchingLead(from_email) ==
    LET matching_leads == {l \in sheet : Email(l) = from_email}
    IN  IF matching_leads = {} THEN NoLead
        ELSE CHOOSE l \in matching_leads :
                 \A m \in matching_leads : RowIndex(l) <= RowIndex(m)

----------------------------------------------------------------------------
(* SheetsService.update_lead: status and note of the row with that id *)

UpdateStatus(st, lead_id, s) ==
    IF lead_id \in sheet THEN [st EXCEPT ![lead_id] = s] ELSE st

UpdateNote(nt, lead_id, n) ==
    IF lead_id \in sheet THEN [nt EXCEPT ![lead_id] = n] ELSE nt

NoNote == [text |-> "", n |-> 0]

Note(text, n) == [text |-> text, n |-> n]

----------------------------------------------------------------------------
(* Campaign records *)

\* mutant: the first follow-up is due at once
NewCampaignDueNow(t) ==
    [sequence |-> "initial",
     last_contact |-> t,
     follow_up_count |-> 0,
     max_follow_ups |-> MAX_FOLLOW_UPS,
     next_follow_up |-> t]

\* the record start_campaign stores after a successful initial send
NewCampaign(t) ==
    [sequence |-> "initial",
     last_contact |-> t,
     follow_up_count |-> 0,
     max_follow_ups |-> MAX_FOLLOW_UPS,
     next_follow_up |-> t + FOLLOW_UP_DAYS]

\* if campaign["next_follow_up"] > now: continue
NotDue(c, t) == c.next_follow_up > t

\* mutant: the comparison off by one
MaxReachedOffByOne(c) == c.follow_up_count > c.max_follow_ups

\* if campaign["follow_up_count"] >= campaign["max_follow_ups"]
MaxReached(c) == c.follow_up_count >= c.max_follow_ups

\* campaign["follow_up_count"] += 1, before the send
CountFollowUp(c) == [c EXCEPT !.follow_up_count = @ + 1]

\* mutant: a successful send that does not move next_follow_up
MarkSentKeepsDue(c, t) == [c EXCEPT !.last_contact = t]

\* the branch taken when _send_email returned True
MarkSent(c, t) == [c EXCEPT !.last_contact = t, !.next_follow_up = t + FOLLOW_UP_DAYS]

\* the campaign record after one pass of the loop body that reached the send
AfterFollowUp(c, t, ok) ==
    IF ok THEN MarkSent(CountFollowUp(c), t) ELSE CountFollowUp(c)

\* mutant: the record is not removed
WithoutNothing(ac, S) == ac

\* del self.active_campaigns[lead_id] for every id of S that is a key
Without(ac, S) == [l \in (DOMAIN ac) \ S |-> ac[l]]

----------------------------------------------------------------------------
(* The scheduler thread's snapshot holds references to the campaign dicts. *)
(* An entry is live while active_campaigns still maps its id to that very  *)
(* dict; deleting or replacing the mapping detaches it.                    *)

Detach(items, S) ==
    [l \in DOMAIN items |-> IF l \in S THEN [items[l] EXCEPT !.live = FALSE] ELSE items[l]]

DetachCur(cur, S) ==
    IF cur.lead \in S THEN [cur EXCEPT !.live = FALSE] ELSE cur

\* the scheduler thread is between two items
NoCur == [lead |-> NoLead, live |-> FALSE]

----------------------------------------------------------------------------
(* Strings.  A Python str is the sequence of its characters; the table     *)
(* holds the spelling of every string the string functions are applied to. *)

\* the values of a lead's country the region choices are run on
CountryStrings ==
    {"US", "United States", "IN", "India", "india", "INDIA", "Mumbai, India", "", "Canada"}

\* lead.get("country") of a lead dict without that key
MissingCountry == "<None>"

PackageIds == {"standard", "STANDARD", "gold"}

Chars(str) ==
    CASE str = "US" -> <<"U", "S">>
      [] str = "United States" ->
             <<"U", "n", "i", "t", "e", "d", " ", "S", "t", "a", "t", "e", "s">>
      [] str = "IN" -> <<"I", "N">>
      [] str = "India" -> <<"I", "n", "d", "i", "a">>
      [] str = "india" -> <<"i", "n", "d", "i", "a">>
      [] str = "INDIA" -> <<"I", "N", "D", "I", "A">>
      [] str = "Mumbai, India" ->
             <<"M", "u", "m", "b", "a", "i", ",", " ", "I", "n", "d", "i", "a">>
      [] str = "" -> << >>
      [] str = "Canada" -> <<"C", "a", "n", "a", "d", "a">>
      [] str = "standard" -> <<"s", "t", "a", "n", "d", "a", "r", "d">>
      [] str = "STANDARD" -> <<"S", "T", "A", "N", "D", "A", "R", "D">>
      [] str = "basic" -> <<"b", "a", "s", "i", "c">>
      [] str = "premium" -> <<"p", "r", "e", "m", "i", "u", "m">>
      [] str = "gold" -> <<"g", "o", "l", "d">>
      [] str = "business" -> <<"b", "u", "s", "i", "n", "e", "s", "s">>
      [] str = "N/A" -> <<"N", "/", "A">>
      [] str = "n/a" -> <<"n", "/", "a">>
      [] str = "Retail" -> <<"R", "e", "t", "a", "i", "l">>
      [] str = "Acme Agency" -> <<"A", "c", "m", "e", " ", "A", "g", "e", "n", "c", "y">>
      [] str = "Head Coach" -> <<"H", "e", "a", "d", " ", "C", "o", "a", "c", "h">>
      [] str = "agency" -> <<"a", "g", "e", "n", "c", "y">>
      [] str = "coach" -> <<"c", "o", "a", "c", "h">>
      [] str = "consult" -> <<"c", "o", "n", "s", "u", "l", "t">>

Uppercase ==
    <<"A", "B", "C", "D", "E", "F", "G", "H", "I", "J", "K", "L", "M",
      "N", "O", "P", "Q", "R", "S", "T", "U", "V", "W", "X", "Y", "Z">>

Lowercase ==
    <<"a", "b", "c", "d", "e", "f", "g", "h", "i", "j", "k", "l", "m",
      "n", "o", "p", "q", "r", "s", "t", "u", "v", "w", "x", "y", "z">>

\* the lower-case letter of every upper-case letter
LowerMap ==
    [ch \in {Uppercase[i] : i \in 1..Len(Uppercase)} |->
        Lowercase[CHOOSE i \in 1..Len(Uppercase) : Uppercase[i] = ch]]

LowerChar(ch) == IF ch \in DOMAIN LowerMap THEN LowerMap[ch] ELSE ch

\* str.lower()
Lower(chars) == [i \in 1..Len(chars) |-> LowerChar(chars[i])]

\* the Python test `sub in chars`
Contains(sub, chars) ==
    \E i \in 0..(Len(chars) - Len(sub)) : SubSeq(chars, i + 1, i + Len(sub)) = sub

----------------------------------------------------------------------------
(* Region choices of lead-automation-system1 *)

\* lead.get("country", default)
GetCountry(country, default) == IF country = MissingCountry THEN default ELSE country

\* _get_smtp_connection: Outlook for "US", Gmail otherwise
SmtpServer(country) ==
    IF country = "US" THEN "smtp-mail.outlook.com" ELSE "smtp.gmail.com"

\* templates.get(country_code, templates["us"]): both sets exist for every stage
TemplateSet(country) ==
    IF CountryCode(country) \in {"us", "india"} THEN CountryCode(country) ELSE "us"

\* PaymentService.create_payment_link: Stripe for "US", Razorpay otherwise
ServiceProcessor(country) == IF country = "US" THEN "stripe" ELSE "razorpay"

\* suggest_pricing: "currency": "USD" if country == "US" else "INR"
SuggestCurrency(country) == IF country = "US" THEN "USD" ELSE "INR"

\* suggest_pricing: the default pricing tiers
SuggestTiers(country) ==
    IF country = "US"
    THEN [standard |-> 2500, premium |-> 3500, enterprise |-> 5000]
    ELSE [standard |-> 40000, premium |-> 85000, enterprise |-> 150000]

----------------------------------------------------------------------------
(* PaymentManager of ai-sales-automation: packages and region choices *)

\* the country strings for which "india" in country.lower() is true
IndiaMatches == {c \in CountryStrings : Contains(Chars("india"), Lower(Chars(c)))}

\* "india" in country.lower()
IsIndia(country) == country \in IndiaMatches

\* get_payment_processor_for_country: the processor name
ProcessorName(country) == IF IsIndia(country) THEN "razorpay" ELSE "stripe"

\* self.packages: the ids _setup_packages defines
Packages == {"basic", "standard", "premium"}

PriceUsd(package) ==
    CASE package = "basic" -> 2500
      [] package = "standard" -> 3500
      [] package = "premium" -> 5000

PriceInr(package) ==
    CASE package = "basic" -> 40000
      [] package = "standard" -> 80000
      [] package = "premium" -> 150000

PackageName(package) ==
    CASE package = "basic" -> "Basic AI Sales Automation"
      [] package = "standard" -> "Standard AI Sales Automation"
      [] package = "premium" -> "Premium AI Sales Automation"

NoPackage == "none"

\* mutant: the lookup is by the id as given
LookupPackageExact(package_id) ==
    IF package_id \in Packages THEN package_id ELSE NoPackage

\* package_id.lower() of every id, looked up among the keys of self.packages
PackageTable ==
    [id \in PackageIds |->
        LET found == {p \in Packages : Chars(p) = Lower(Chars(id))}
        IN  IF found = {} THEN NoPackage ELSE CHOOSE p \in found : TRUE]

\* self.packages.get(package_id.lower())
LookupPackage(package_id) == PackageTable[package_id]

\* mutant: the USD price under the INR label
PriceForUsdOnly(package, country) ==
    IF IsIndia(country)
    THEN [price |-> PriceUsd(package), currency |-> "INR"]
    ELSE [price |-> PriceUsd(package), currency |-> "USD"]

\* get_price_for_package, for a package of the table
PriceFor(package, country) ==
    IF IsIndia(country)
    THEN [price |-> PriceInr(package), currency |-> "INR"]
    ELSE [price |-> PriceUsd(package), currency |-> "USD"]

\* the rows of the Leads worksheet; a lead id is its row number
ManagerLeads == {"2"}

\* the lead ids create_payment_link is called with
ManagerLeadIds == {"2", "L2"}

\* what construction found configured
FullConfig ==
    [stripe_api_key |-> TRUE, razorpay_client |-> TRUE,
     stripe_processor |-> TRUE, stripe_prices |-> TRUE,
     razorpay_processor |-> TRUE, sheets_manager |-> TRUE]

Configs ==
    {FullConfig,
     [FullConfig EXCEPT !.stripe_api_key = FALSE],
     [FullConfig EXCEPT !.razorpay_client = FALSE],
     [FullConfig EXCEPT !.stripe_processor = FALSE, !.stripe_prices = FALSE],
     [FullConfig EXCEPT !.stripe_prices = FALSE],
     [FullConfig EXCEPT !.razorpay_processor = FALSE],
     [FullConfig EXCEPT !.sheets_manager = FALSE]}

----------------------------------------------------------------------------
(* History *)

\* rep: the same operation with the same arguments ran immediately before;
\* ret: what the operation returned to its caller
OpRet(name, arg, out, ret) ==
    [op |-> name, arg |-> arg, out |-> out, ret |-> ret,
     rep |-> (lastOp.op = name /\ lastOp.arg = arg)]

NoRet == [none |-> TRUE]

Op(name, arg, out) == OpRet(name, arg, out, NoRet)

NoArg == [none |-> TRUE]

----------------------------------------------------------------------------
InitWith(rows) ==
    /\ sheet = rows
    /\ now = 0
    /\ active_campaigns = << >>
    /\ status = [l \in rows |-> "New"]
    /\ last_note = [l \in rows |-> NoNote]
    /\ lastOp = [op |-> "init", arg |-> NoArg, out |-> {}, ret |-> NoRet, rep |-> FALSE]
    /\ tickPc = "idle"
    /\ tickNow = 0
    /\ tickItems = << >>
    /\ tickCur = NoCur
    /\ replyPc = "idle"
    /\ replyCur = NoArg
    /\ links = << >>
    /\ deals = << >>
    /\ lead_status = [l \in ManagerLeads |-> "New"]
    /\ outreach = << >>
    /\ inbox = {}
    /\ lead_columns = "standard"

Init ==
    /\ \E rows \in ((SUBSET AllLeads) \ {{}}) \cup {{NoEmailLead, "L1"}} : InitWith(rows)
    /\ config = FullConfig

\* a day passes
Advance ==
    /\ now < Horizon
    /\ now' = now + 1
    /\ lastOp' = Op("advance", [day |-> now + 1], {})
    /\ UNCHANGED <<payVars, socialVars, sheet, active_campaigns, status, last_note, threadVars>>

\* mutant: every lead of the batch is reported as started
StartEntryAlwaysSuccess(l, sent, good) == [id |-> l, status |-> "Success", reason |-> ""]

\* mutant: a failed lead's entry carries no reason
StartEntryNoReason(l, sent, good) ==
    [id |-> l, status |-> IF l \in good THEN "Success" ELSE "Failed", reason |-> ""]

\* the entry start_campaign appends to results["leads"] for one lead
StartEntry(l, sent, good) ==
    CASE l \notin sent -> [id |-> l, status |-> "Failed", reason |-> "No email address"]
      [] l \in good -> [id |-> l, status |-> "Success", reason |-> ""]
      [] OTHER -> [id |-> l, status |-> "Failed", reason |-> "Email sending failed"]

(* EmailService.start_campaign(leads): every lead of the batch with an     *)
(* email is sent the initial message; a successful send sets the status    *)
(* and stores a fresh campaign record under the lead's id.                 *)
StartCampaign ==
    \E batch \in (SUBSET sheet) \ {{}} :
      \E good \in SUBSET {l \in batch : Email(l) # ""} :
        LET sent == {l \in batch : Email(l) # ""}
        IN  /\ active_campaigns' =
                   [l \in (DOMAIN active_campaigns) \cup good |->
                       IF l \in good THEN NewCampaign(now) ELSE active_campaigns[l]]
            /\ status' = [l \in sheet |-> IF l \in good THEN "Initial Contact" ELSE status[l]]
            /\ last_note' = [l \in sheet |->
                   IF l \in good THEN Note("Initial email sent", 0) ELSE last_note[l]]
            /\ lastOp' = OpRet("start_campaign", [leads |-> batch],
                            {Dispatch(l, "initial", l \in good) : l \in sent},
                            [success |-> Cardinality(good),
                             failed |-> Cardinality(batch \ good),
                             leads |-> {StartEntry(l, sent, good) : l \in batch}])
            /\ tickItems' = Detach(tickItems, good)
            /\ tickCur' = DetachCur(tickCur, good)
            /\ UNCHANGED <<payVars, socialVars, sheet, now, tickPc, tickNow, replyPc, replyCur>>

(* EmailService._process_follow_ups(): one pass over                       *)
(* list(self.active_campaigns.items()), run to its end.                    *)
ProcessFollowUps ==
    /\ tickPc = "idle"
    /\ LET items == DOMAIN active_campaigns
           due == {l \in items : ~NotDue(active_campaigns[l], now)}
           closed == {l \in due : MaxReached(active_campaigns[l])}
           tried == due \ closed
       IN  \E good \in SUBSET tried :
            /\ active_campaigns' =
                   [l \in items \ closed |->
                       IF l \in tried
                       THEN AfterFollowUp(active_campaigns[l], now, l \in good)
                       ELSE active_campaigns[l]]
            /\ status' = [l \in sheet |->
                   IF l \in closed THEN "No Response"
                   ELSE IF l \in good THEN "Follow-up" ELSE status[l]]
            /\ last_note' = [l \in sheet |->
                   IF l \in closed
                   THEN Note("Completed follow-ups with no response",
                             active_campaigns[l].follow_up_count)
                   ELSE IF l \in good
                   THEN Note("Follow-up email sent",
                             active_campaigns[l].follow_up_count + 1)
                   ELSE last_note[l]]
            /\ lastOp' = Op("tick", [now |-> now],
                   {Dispatch(l, SequenceType(active_campaigns[l].follow_up_count + 1),
                             l \in good) : l \in tried})
            /\ UNCHANGED <<payVars, socialVars, sheet, now, threadVars>>

(* EmailService.handle_reply(email_data), run to its end.                  *)
HandleReply ==
    /\ replyPc = "idle"
    /\ \E from_email \in {Email(l) : l \in sheet} \cup {UnknownEmail}, body \in Bodies :
        LET lead_id == MatchingLead(from_email)
            arg == [from |-> from_email, body |-> body]
        IN  IF lead_id = NoLead
            THEN /\ lastOp' = Op("reply", arg, {})
                 /\ UNCHANGED <<payVars, socialVars, sheet, now, active_campaigns, status, last_note, threadVars>>
            ELSE /\ active_campaigns' = Without(active_campaigns, {lead_id})
                 /\ tickItems' = Detach(tickItems, {lead_id})
                 /\ tickCur' = DetachCur(tickCur, {lead_id})
                 /\ IF WantsCall(body)
                    THEN \E ok \in BOOLEAN :
                           /\ lastOp' = Op("reply", arg, {Dispatch(lead_id, "call_invite", ok)})
                           /\ status' = UpdateStatus(status, lead_id, "Call Requested")
                           /\ last_note' = UpdateNote(last_note, lead_id,
                                  Note("Lead requested a call, sent Calendly link", 0))
                    ELSE /\ lastOp' = Op("reply", arg, {})
                         /\ status' = UpdateStatus(status, lead_id, "Replied")
                         /\ last_note' = UpdateNote(last_note, lead_id, Note("Lead replied", 0))
                 /\ UNCHANGED <<payVars, socialVars, sheet, now, tickPc, tickNow, replyPc, replyCur>>

----------------------------------------------------------------------------
(* PaymentService.handle_webhook(webhook_data) *)

PaymentSources == {"stripe", "razorpay", "unknown"}

PaymentEvents == {"checkout.session.completed", "payment.authorized", "other"}

\* mutant: every event counts as a completed payment
IsPaymentSuccessAlways(source, event) == TRUE

\* the event type each handler treats as payment success
IsPaymentSuccess(source, event) ==
    \/ source = "stripe" /\ event = "checkout.session.completed"
    \/ source = "razorpay" /\ event = "payment.authorized"

(* _send_onboarding_email: "import" when `from email_service import        *)
(* EmailService` raises, "failed" and "sent" by the outcome of the send.   *)
OnboardingOutcomes == {"import", "failed", "sent"}

HandleWebhook ==
    \E source \in PaymentSources, event \in PaymentEvents, lead_id \in sheet :
        LET arg == [lead_id |-> lead_id, paid |-> IsPaymentSuccess(source, event)]
        IN  IF IsPaymentSuccess(source, event)
            THEN \E onboarding \in OnboardingOutcomes :
                 /\ status' = UpdateStatus(status, lead_id,
                        IF onboarding = "sent" THEN "Onboarding" ELSE "Payment Received")
                 /\ last_note' = UpdateNote(last_note, lead_id,
                        IF onboarding = "sent" THEN Note("Sent onboarding email", 0)
                        ELSE Note("Received payment", 0))
                 /\ lastOp' = Op("payment", arg,
                        IF onboarding = "import" THEN {}
                        ELSE {Message(lead_id, "onboarding",
                                      IF Country(lead_id) = "US" THEN "us" ELSE "india",
                                      onboarding = "sent")})
                 /\ UNCHANGED <<payVars, socialVars, sheet, now, active_campaigns, threadVars>>
            ELSE /\ lastOp' = Op("payment", arg, {})
                 /\ UNCHANGED <<payVars, socialVars, sheet, now, active_campaigns, status, last_note, threadVars>>

Next ==
    \/ Advance
    \/ StartCampaign
    \/ ProcessFollowUps
    \/ HandleReply
    \/ HandleWebhook

Spec == Init /\ [][Next]_vars

----------------------------------------------------------------------------
(* The threads.  _start_follow_up_scheduler runs _process_follow_ups on a  *)
(* daemon thread; the web server runs handle_reply on a request thread.    *)
(* No lock is taken anywhere, so the two interleave wherever one of them   *)
(* blocks: at the SMTP send and at the calls to the sheet.  The order in   *)
(* which the tick visits its snapshot is left open.                        *)

\* now = datetime.now(); list(self.active_campaigns.items())
TickBegin ==
    /\ tickPc = "idle"
    /\ tickPc' = "loop"
    /\ tickNow' = now
    /\ tickItems' = [l \in DOMAIN active_campaigns |->
                        [campaign |-> active_campaigns[l], live |-> TRUE]]
    /\ lastOp' = Op("tick_begin", [now |-> now], {})
    /\ UNCHANGED <<payVars, socialVars, sheet, now, active_campaigns, status, last_note, tickCur, replyPc, replyCur>>

\* the loop body up to the send, for one (lead_id, campaign) of the snapshot
TickVisit ==
    /\ tickPc = "loop"
    /\ \E l \in DOMAIN tickItems :
        LET c == tickItems[l].campaign
            live == tickItems[l].live
            rest == [m \in (DOMAIN tickItems) \ {l} |-> tickItems[m]]
            arg == [now |-> tickNow, lead |-> l]
        IN  CASE NotDue(c, tickNow) ->
                   /\ tickItems' = rest
                   /\ lastOp' = Op("tick_skip", arg, {})
                   /\ UNCHANGED <<active_campaigns, status, last_note, tickPc, tickCur>>
              [] ~NotDue(c, tickNow) /\ MaxReached(c) /\ l \in DOMAIN active_campaigns ->
                   /\ active_campaigns' = Without(active_campaigns, {l})
                   /\ status' = UpdateStatus(status, l, "No Response")
                   /\ last_note' = UpdateNote(last_note, l,
                          Note("Completed follow-ups with no response", c.follow_up_count))
                   /\ tickItems' = rest
                   /\ lastOp' = Op("tick_close", arg, {})
                   /\ UNCHANGED <<tickPc, tickCur>>
              [] ~NotDue(c, tickNow) /\ MaxReached(c) /\ l \notin DOMAIN active_campaigns ->
                   \* del raises KeyError: the job's exception ends run_scheduler
                   /\ tickPc' = "dead"
                   /\ tickItems' = << >>
                   /\ lastOp' = Op("tick_keyerror", arg, {})
                   /\ UNCHANGED <<active_campaigns, status, last_note, tickCur>>
              [] OTHER ->
                   /\ active_campaigns' =
                          IF live THEN [active_campaigns EXCEPT ![l] = CountFollowUp(c)]
                          ELSE active_campaigns
                   /\ tickCur' = [lead |-> l, campaign |-> CountFollowUp(c), live |-> live]
                   /\ tickItems' = rest
                   /\ tickPc' = "send"
                   /\ lastOp' = Op("tick_count", arg, {})
                   /\ UNCHANGED <<status, last_note>>
    /\ UNCHANGED <<payVars, socialVars, sheet, now, tickNow, replyPc, replyCur>>

\* _send_email and the branch on its result
TickSend ==
    /\ tickPc = "send"
    /\ \E ok \in BOOLEAN :
        LET l == tickCur.lead
            c == tickCur.campaign
        IN  /\ lastOp' = Op("tick_send", [now |-> tickNow, lead |-> l],
                            {Dispatch(l, SequenceType(c.follow_up_count), ok)})
            /\ IF ok
               THEN /\ active_campaigns' =
                           IF tickCur.live
                           THEN [active_campaigns EXCEPT ![l] = MarkSent(c, tickNow)]
                           ELSE active_campaigns
                    /\ status' = UpdateStatus(status, l, "Follow-up")
                    /\ last_note' = UpdateNote(last_note, l,
                           Note("Follow-up email sent", c.follow_up_count))
               ELSE UNCHANGED <<active_campaigns, status, last_note>>
    /\ tickPc' = "loop"
    /\ tickCur' = NoCur
    /\ UNCHANGED <<payVars, socialVars, sheet, now, tickNow, tickItems, replyPc, replyCur>>

\* the loop has visited every item
TickEnd ==
    /\ tickPc = "loop"
    /\ tickItems = << >>
    /\ tickPc' = "idle"
    /\ lastOp' = Op("tick_end", [now |-> tickNow], {})
    /\ UNCHANGED <<payVars, socialVars, sheet, now, active_campaigns, status, last_note,
                   tickNow, tickItems, tickCur, replyPc, replyCur>>

\* handle_reply up to the removal of the campaign record
ReplyBegin ==
    /\ replyPc = "idle"
    /\ \E from_email \in {Email(l) : l \in sheet} \cup {UnknownEmail}, body \in Bodies :
        LET lead_id == MatchingLead(from_email)
            arg == [from |-> from_email, body |-> body]
        IN  /\ lastOp' = Op("reply_begin", arg, {})
            /\ IF lead_id = NoLead
               THEN UNCHANGED <<active_campaigns, tickItems, tickCur, replyPc, replyCur>>
               ELSE /\ active_campaigns' = Without(active_campaigns, {lead_id})
                    /\ tickItems' = Detach(tickItems, {lead_id})
                    /\ tickCur' = DetachCur(tickCur, {lead_id})
                    /\ replyPc' = "respond"
                    /\ replyCur' = [lead |-> lead_id, from |-> from_email, body |-> body]
    /\ UNCHANGED <<payVars, socialVars, sheet, now, status, last_note, tickPc, tickNow>>

\* handle_reply from the keyword test to its return
ReplyFinish ==
    /\ replyPc = "respond"
    /\ LET lead_id == replyCur.lead
           arg == [from |-> replyCur.from, body |-> replyCur.body]
       IN  IF WantsCall(replyCur.body)
           THEN \E ok \in BOOLEAN :
                  /\ lastOp' = Op("reply", arg, {Dispatch(lead_id, "call_invite", ok)})
                  /\ status' = UpdateStatus(status, lead_id, "Call Requested")
                  /\ last_note' = UpdateNote(last_note, lead_id,
                         Note("Lead requested a call, sent Calendly link", 0))
           ELSE /\ lastOp' = Op("reply", arg, {})
                /\ status' = UpdateStatus(status, lead_id, "Replied")
                /\ last_note' = UpdateNote(last_note, lead_id, Note("Lead replied", 0))
    /\ replyPc' = "idle"
    /\ replyCur' = NoArg
    /\ UNCHANGED <<payVars, socialVars, sheet, now, active_campaigns, tickPc, tickNow, tickItems, tickCur>>

InitConc == InitWith(AllLeads) /\ config = FullConfig

\* a start_campaign request, handled while the threads run
ConcStart == now <= MaxStartDay /\ StartCampaign

NextConc ==
    \/ Advance
    \/ ConcStart
    \/ TickBegin
    \/ TickVisit
    \/ TickSend
    \/ TickEnd
    \/ ReplyBegin
    \/ ReplyFinish

SpecConc == InitConc /\ [][NextConc]_vars

----------------------------------------------------------------------------
(* The scenario of a lead that never replies and whose sends all succeed:  *)
(* the handlers of Spec with every dispatch successful, no reply and no    *)
(* payment.                                                                *)

AllDispatchesOk == \A a \in lastOp.out : a.ok

ScenarioStart == StartCampaign /\ AllDispatchesOk'

ScenarioTick == ProcessFollowUps /\ AllDispatchesOk'

NextScenario ==
    \/ Advance
    \/ ScenarioStart
    \/ ScenarioTick

SpecScenario == Init /\ [][NextScenario]_vars

----------------------------------------------------------------------------
(* Region choices and payment links of lead-automation-system1:            *)
(* EmailService._get_smtp_connection, the template-set choice,             *)
(* PaymentService.create_payment_link and suggest_pricing, and the         *)
(* /api/payment/create route of app.py.                                    *)

CountryInputs == CountryStrings \cup {MissingCountry}

\* the region a choice stands for
RegionOf(choice) ==
    IF choice \in {"smtp-mail.outlook.com", "us", "stripe", "USD"} THEN "us" ELSE "india"

\* payment amounts requested through /api/payment/create
Amounts == {2500}

\* a lead id no row of the sheet holds
UnknownLeadId == "L9"

\* the outcome of the calls to the processor's API
ProcessorOutcomes == {"ok", "error"}

ServiceConfigured(processor) ==
    IF processor = "stripe" THEN config.stripe_api_key ELSE config.razorpay_client

\* the string _create_stripe_payment_link / _create_razorpay_payment_link returns
ServiceUrl(processor, outcome) ==
    CASE ~ServiceConfigured(processor) /\ processor = "stripe" -> "#stripe-not-configured"
      [] ~ServiceConfigured(processor) /\ processor # "stripe" -> "#razorpay-not-configured"
      [] ServiceConfigured(processor) /\ outcome = "error" -> "#payment-error"
      [] OTHER -> "https://processor/link"

\* the link the processor minted, with the metadata / notes sent along
ServiceLink(processor, l, amount) ==
    [by |-> "PaymentService",
     processor |-> processor,
     lead |-> l,
     meta_lead_id |-> l,
     currency |-> IF processor = "stripe" THEN "usd" ELSE "INR",
     amount |-> amount * 100]

Minted(processor, outcome) == ServiceConfigured(processor) /\ outcome = "ok"

\* the note _create_*_payment_link stores with status 'Payment Link Created'
LinkNote(processor) ==
    IF processor = "stripe" THEN Note("Created Stripe payment link", 0)
    ELSE Note("Created Razorpay payment link", 0)

\* EmailService._get_smtp_connection(country)
GetSmtpConnection ==
    /\ \E country \in CountryInputs :
         lastOp' = OpRet("_get_smtp_connection", [country |-> country], {},
                         [region |-> RegionOf(SmtpServer(country)),
                          choice |-> SmtpServer(country), raised |-> FALSE])
    /\ UNCHANGED <<payVars, socialVars, sheet, now, active_campaigns, status, last_note, threadVars>>

\* country_code and templates.get(country_code, templates["us"]) of a send
SelectTemplate ==
    /\ \E country \in CountryInputs, stage \in TemplateStages :
         lastOp' = OpRet("select_template", [country |-> country, stage |-> stage], {},
                         [region |-> RegionOf(TemplateSet(country)),
                          choice |-> TemplateSet(country), raised |-> FALSE])
    /\ UNCHANGED <<payVars, socialVars, sheet, now, active_campaigns, status, last_note, threadVars>>

(* PaymentService.suggest_pricing(lead): the tiers of the lead's region,   *)
(* scaled by company size and by revenue.                                  *)
CompanySizes == {0, 50, 200}

Revenues == {0, 6000000}

SizeFactor(company_size) ==
    CASE company_size > 100 -> 12
      [] company_size < 10 -> 9
      [] OTHER -> 10

RevenueFactor(country, revenue) ==
    IF country = "US"
    THEN CASE revenue > 10000000 -> 13
           [] revenue > 5000000 /\ revenue <= 10000000 -> 11
           [] OTHER -> 10
    ELSE CASE revenue > 100000000 -> 13
           [] revenue > 50000000 /\ revenue <= 100000000 -> 11
           [] OTHER -> 10

SuggestPricing ==
    /\ \E given \in CountryInputs, company_size \in CompanySizes, revenue \in Revenues :
         LET country == GetCountry(given, "US")
             tiers == SuggestTiers(country)
             scaled == [k \in DOMAIN tiers |->
                           (tiers[k] * SizeFactor(company_size)
                                     * RevenueFactor(country, revenue)) \div 100]
         IN  lastOp' = OpRet("suggest_pricing",
                             [country |-> given, company_size |-> company_size,
                              revenue |-> revenue], {},
                             [region |-> RegionOf(SuggestCurrency(country)),
                              choice |-> SuggestCurrency(country), raised |-> FALSE,
                              pricing |-> scaled])
    /\ UNCHANGED <<payVars, socialVars, sheet, now, active_campaigns, status, last_note, threadVars>>

(* PaymentService.create_payment_link(country, amount, lead)               *)
CreatePaymentLink ==
    /\ Len(links) < MaxLinks
    /\ \E country \in CountryInputs, amount \in Amounts, l \in sheet,
          outcome \in ProcessorOutcomes :
         LET processor == ServiceProcessor(country)
             minted == Minted(processor, outcome)
         IN  /\ links' = IF minted THEN Append(links, ServiceLink(processor, l, amount))
                         ELSE links
             /\ status' = IF minted THEN UpdateStatus(status, l, "Payment Link Created")
                          ELSE status
             /\ last_note' = IF minted THEN UpdateNote(last_note, l, LinkNote(processor))
                             ELSE last_note
             /\ lastOp' = OpRet("create_payment_link",
                                [country |-> country, lead_id |-> l, amount |-> amount], {},
                                [region |-> RegionOf(processor), choice |-> processor,
                                 raised |-> FALSE,
                                 url |-> ServiceUrl(processor, outcome)])
    /\ UNCHANGED <<socialVars, deals, lead_status, config, sheet, now, active_campaigns, threadVars>>

(* app.create_payment: POST /api/payment/create {lead_id, amount}          *)
CreatePayment ==
    /\ Len(links) < MaxLinks
    /\ \E lead_id \in sheet \cup {UnknownLeadId}, amount \in Amounts,
          outcome \in ProcessorOutcomes :
         LET arg == [lead_id |-> lead_id, amount |-> amount]
         IN  IF lead_id \notin sheet
             THEN \* get_lead returned None: lead.get raises, the route answers 500
                  /\ lastOp' = OpRet("create_payment", arg, {},
                                     [success |-> FALSE, payment_link |-> "",
                                      processor_called |-> 0, processor_failed |-> FALSE])
                  /\ UNCHANGED <<links, status, last_note>>
             ELSE LET processor == ServiceProcessor(GetCountry(Country(lead_id), "US"))
                      minted == Minted(processor, outcome)
                      url == ServiceUrl(processor, outcome)
                  IN  /\ links' = IF minted
                                  THEN Append(links, ServiceLink(processor, lead_id, amount))
                                  ELSE links
                      /\ status' = UpdateStatus(status, lead_id, "Payment Sent")
                      /\ last_note' = UpdateNote(last_note, lead_id,
                                                 [text |-> "Payment link", n |-> 0, url |-> url])
                      /\ lastOp' = OpRet("create_payment", arg, {},
                             [success |-> TRUE, payment_link |-> url,
                              processor_called |-> IF ServiceConfigured(processor) THEN 1 ELSE 0,
                              processor_failed |->
                                  ServiceConfigured(processor) /\ outcome = "error"])
    /\ UNCHANGED <<socialVars, deals, lead_status, config, sheet, now, active_campaigns, threadVars>>

\* the region-dependent operations, called with any country
InitRegion == InitWith({"L1"}) /\ config \in Configs

NextRegion ==
    \/ GetSmtpConnection
    \/ SelectTemplate
    \/ SuggestPricing
    \/ CreatePaymentLink

SpecRegion == InitRegion /\ [][NextRegion]_vars

\* the payment route of the web application, beside campaign starts
InitPay == InitWith(AllLeads) /\ config \in Configs

NextPay ==
    \/ ConcStart
    \/ CreatePayment

SpecPay == InitPay /\ [][NextPay]_vars

----------------------------------------------------------------------------
(* PaymentManager of ai-sales-automation (modules/payment_processing.py)   *)
(* with the Deals and Leads worksheets of GoogleSheetsManager.             *)

NoError == "none"

\* the countries of the leads a link is created for
LeadCountries == {"United States", "India", "IN", MissingCountry}

\* what the calls to the worksheets did inside record_deal
SheetOutcomes == {"ok", "append_failed", "status_failed"}

\* self.stripe_processor / self.razorpay_processor is not None
ProcessorAvailable(name) ==
    IF name = "stripe" THEN config.stripe_processor ELSE config.razorpay_processor

\* the link minted by StripePaymentProcessor.create_payment_link or by
\* RazorpayPaymentProcessor.generate_payment_link, with what was sent along
ManagerLink(name, lead_id, package, priced) ==
    IF name = "stripe"
    THEN [by |-> "PaymentManager", processor |-> "stripe", lead |-> lead_id,
          meta_lead_id |-> NoLead, currency |-> "usd",
          amount |-> PriceUsd(package) * 100]
    ELSE [by |-> "PaymentManager", processor |-> "razorpay", lead |-> lead_id,
          meta_lead_id |-> lead_id, currency |-> priced.currency,
          amount |-> priced.price * 100]

\* the row record_deal appends to the Deals worksheet
Deal(lead_id, package, priced, name) ==
    [Lead_ID |-> lead_id, Package |-> PackageName(package), Price |-> priced.price,
     Currency |-> priced.currency, Payment_Method |-> name, Status |-> "Pending"]

\* update_lead_status: lead_row = int(lead_id), then the Status cell
UpdateLeadStatus(ls, lead_id, s) ==
    IF lead_id \in DOMAIN ls THEN [ls EXCEPT ![lead_id] = s] ELSE ls

\* the exception create_payment_link ends with, NoError when it returns
LinkError(package_id, country, outcome) ==
    IF LookupPackage(package_id) = NoPackage THEN "ValueError: Invalid package ID"
    ELSE IF country = MissingCountry THEN "AttributeError"
    ELSE LET name == ProcessorName(country)
         IN  IF ~ProcessorAvailable(name) THEN "ValueError: No payment processor available"
             ELSE IF name = "stripe" /\ ~config.stripe_prices
                  THEN "ValueError: Stripe price ID not found"
             ELSE IF outcome = "error" THEN "ProcessorError"
             ELSE NoError

\* the processor's API was reached
ProcessorCalled(err) == err \in {NoError, "ProcessorError"}

\* PaymentManager.get_payment_processor_for_country(country)
GetPaymentProcessorForCountry ==
    /\ \E country \in CountryInputs :
         lastOp' = OpRet("get_payment_processor_for_country", [country |-> country], {},
                         IF country = MissingCountry
                         THEN [region |-> "none", choice |-> "none", raised |-> TRUE]
                         ELSE [region |-> RegionOf(ProcessorName(country)),
                               choice |-> ProcessorName(country), raised |-> FALSE])
    /\ UNCHANGED <<payVars, socialVars, sheet, now, active_campaigns, status, last_note, threadVars>>

\* PaymentManager.get_price_for_package(package_id, country)
GetPriceForPackage ==
    /\ \E country \in CountryInputs, package_id \in PackageIds :
         LET package == LookupPackage(package_id)
             arg == [country |-> country, package_id |-> package_id]
         IN  lastOp' =
               IF country = MissingCountry \/ package = NoPackage
               THEN OpRet("get_price_for_package", arg, {},
                          [region |-> "none", choice |-> "none", raised |-> TRUE, price |-> 0])
               ELSE OpRet("get_price_for_package", arg, {},
                          [region |-> RegionOf(PriceFor(package, country).currency),
                           choice |-> PriceFor(package, country).currency,
                           raised |-> FALSE,
                           price |-> PriceFor(package, country).price])
    /\ UNCHANGED <<payVars, socialVars, sheet, now, active_campaigns, status, last_note, threadVars>>

(* PaymentManager.create_payment_link(lead_id, package_id, customer_name,  *)
(* customer_email, country)                                                *)
ManagerCreatePaymentLink ==
    /\ Len(links) < MaxManagerLinks
    /\ \E lead_id \in ManagerLeadIds, package_id \in PackageIds, country \in LeadCountries,
          outcome \in ProcessorOutcomes, sheet_outcome \in SheetOutcomes :
         LET package == LookupPackage(package_id)
             err == LinkError(package_id, country, outcome)
             arg == [lead_id |-> lead_id, package_id |-> package_id, country |-> country]
         IN  IF err # NoError
             THEN /\ lastOp' = OpRet("manager_create_payment_link", arg, {},
                                     [raised |-> err, url |-> "",
                                      processor_calls |-> IF ProcessorCalled(err) THEN 1 ELSE 0])
                  /\ UNCHANGED <<links, deals, lead_status>>
             ELSE LET name == ProcessorName(country)
                      priced == PriceFor(package, country)
                      record == config.sheets_manager
                      appended == record /\ sheet_outcome # "append_failed"
                      marked == appended /\ sheet_outcome = "ok"
                  IN  /\ links' = Append(links, ManagerLink(name, lead_id, package, priced))
                      /\ deals' = IF appended
                                  THEN Append(deals, Deal(lead_id, package, priced, name))
                                  ELSE deals
                      /\ lead_status' = IF marked
                                        THEN UpdateLeadStatus(lead_status, lead_id, "Deal Sent")
                                        ELSE lead_status
                      /\ lastOp' = OpRet("manager_create_payment_link", arg, {},
                                         [raised |-> NoError, url |-> "https://processor/link",
                                          processor_calls |-> 1])
    /\ UNCHANGED <<socialVars, config, sheet, now, active_campaigns, status, last_note, threadVars>>

InitManager == InitWith({"L1"}) /\ config \in Configs

NextManager ==
    \/ GetPaymentProcessorForCountry
    \/ GetPriceForPackage
    \/ ManagerCreatePaymentLink

SpecManager == InitManager /\ [][NextManager]_vars

----------------------------------------------------------------------------
(* Properties *)

Active(l) == l \in DOMAIN active_campaigns

\* the dispatch attempts the last operation made to lead l
SentTo(op, l) == {a \in op.out : a.lead = l}

ConvertedStatuses == {"Payment Received", "Onboarding"}

ExhaustedStatus == "No Response"

ClosingNote(n) == Note("Completed follow-ups with no response", n)

TerminalStatuses == {"Payment Received", ExhaustedStatus}

\* the message the scenario expects as the n-th follow-up to lead l
ExpectedFollowUp(l, n) ==
    [lead |-> l,
     to |-> Email(l),
     stage |-> <<"follow_up_1", "follow_up_2", "follow_up_3">>[n],
     template_set |-> IF Country(l) = "US" THEN "us" ELSE "india",
     ok |-> TRUE]

(* C1: every active campaign record has 0 <= follow_up_count <=            *)
(* max_follow_ups = 3, whatever the dispatch outcomes; a due tick on a     *)
(* record whose count has reached the maximum sends nothing to that lead,  *)
(* removes the record and sets the lead's status to 'No Response'.         *)
C1_CountInRange ==
    \A l \in DOMAIN active_campaigns :
        /\ active_campaigns[l].max_follow_ups = MAX_FOLLOW_UPS
        /\ 0 <= active_campaigns[l].follow_up_count
        /\ active_campaigns[l].follow_up_count <= active_campaigns[l].max_follow_ups

C1_ExhaustStep ==
    \A l \in DOMAIN active_campaigns :
        ( /\ lastOp'.op = "tick"
          /\ active_campaigns[l].next_follow_up <= now
          /\ active_campaigns[l].follow_up_count = active_campaigns[l].max_follow_ups )
        => /\ SentTo(lastOp', l) = {}
           /\ l \notin DOMAIN active_campaigns'
           /\ status'[l] = ExhaustedStatus

C1_FollowUpBound == [](C1_CountInRange) /\ [][C1_ExhaustStep]_vars

C1_Witness ==
    \E l \in sheet :
        /\ lastOp.op = "tick"
        /\ SentTo(lastOp, l) = {}
        /\ ~Active(l)
        /\ status[l] = ExhaustedStatus
        /\ last_note[l] = ClosingNote(MAX_FOLLOW_UPS)

(* C2: when the dispatch of a follow-up fails during a tick, the lead's    *)
(* follow_up_count and next_follow_up are the same after the tick as       *)
(* before it.                                                              *)
C2_FailedDispatchKeepsRecord ==
    [][ \A l \in DOMAIN active_campaigns :
          ( /\ lastOp'.op = "tick"
            /\ \E a \in SentTo(lastOp', l) : ~a.ok )
          => /\ l \in DOMAIN active_campaigns'
             /\ active_campaigns'[l].follow_up_count = active_campaigns[l].follow_up_count
             /\ active_campaigns'[l].next_follow_up = active_campaigns[l].next_follow_up
      ]_vars

(* C3: once a payment-succeeded webhook for lead L has been handled, L is  *)
(* Converted and has no pending follow-up, and no later tick sends L a     *)
(* message or changes L's status.                                          *)
C3_ConversionClearsFollowUp ==
    [][ \A l \in sheet :
          /\ ( /\ lastOp'.op = "payment"
               /\ lastOp'.arg.paid
               /\ lastOp'.arg.lead_id = l )
             => /\ status'[l] \in ConvertedStatuses
                /\ l \notin DOMAIN active_campaigns'
          /\ ( /\ status[l] \in ConvertedStatuses
               /\ lastOp'.op = "tick" )
             => /\ SentTo(lastOp', l) = {}
                /\ status'[l] = status[l]
      ]_vars

(* C4: processing the same reply event a second time sends no message and  *)
(* leaves the lead's status and campaign tracking as the first processing  *)
(* left them.                                                              *)
C4_ReplyTwiceSendsOnce ==
    [][ ( /\ lastOp.op = "reply"
          /\ lastOp'.op = "reply"
          /\ lastOp'.arg = lastOp.arg )
        => /\ lastOp'.out = {}
           /\ UNCHANGED <<active_campaigns, status>>
      ]_vars

C6_NoFollowUpAfterReplyRemoval ==
    [][ \A l \in sheet :
          l \notin DOMAIN active_campaigns
          => /\ \A a \in SentTo(lastOp', l) : a.stage \notin FollowUpStages
             /\ status'[l] = "Follow-up" => status[l] = "Follow-up"
      ]_vars

(* C7: a campaign started at t0 with a successful initial send has count 0 *)
(* and next_follow_up = t0 + 3 days.  With every dispatch successful and   *)
(* no reply, a tick before next_follow_up does nothing for the lead; a due *)
(* tick at count n < 3 sends follow_up_(n+1), raises the count to n+1 and  *)
(* sets next_follow_up to the tick time + 3 days; a due tick at count 3    *)
(* sends nothing, removes the campaign and marks the lead 'No Response'    *)
(* with a closing note.  So follow_up_n is not sent before day 3n and the  *)
(* lead is not Exhausted before day 12.                                    *)
C7_StartStep ==
    \A l \in sheet :
        ( /\ lastOp'.op = "start_campaign"
          /\ \E a \in SentTo(lastOp', l) : a.ok )
        => /\ \A a \in SentTo(lastOp', l) : a.stage = "initial"
           /\ l \in DOMAIN active_campaigns'
           /\ active_campaigns'[l].follow_up_count = 0
           /\ active_campaigns'[l].last_contact = now
           /\ active_campaigns'[l].next_follow_up = now + FOLLOW_UP_DAYS

C7_TickStep ==
    \A l \in DOMAIN active_campaigns :
        LET c == active_campaigns[l]
        IN  lastOp'.op = "tick" =>
            CASE c.next_follow_up > now ->
                   /\ SentTo(lastOp', l) = {}
                   /\ l \in DOMAIN active_campaigns'
                   /\ active_campaigns'[l] = c
                   /\ status'[l] = status[l]
              [] c.next_follow_up <= now /\ c.follow_up_count < MAX_FOLLOW_UPS ->
                   /\ SentTo(lastOp', l) = {ExpectedFollowUp(l, c.follow_up_count + 1)}
                   /\ l \in DOMAIN active_campaigns'
                   /\ active_campaigns'[l].follow_up_count = c.follow_up_count + 1
                   /\ active_campaigns'[l].last_contact = now
                   /\ active_campaigns'[l].next_follow_up = now + FOLLOW_UP_DAYS
                   /\ status'[l] = "Follow-up"
              [] OTHER ->
                   /\ SentTo(lastOp', l) = {}
                   /\ l \notin DOMAIN active_campaigns'
                   /\ status'[l] = ExhaustedStatus
                   /\ last_note'[l] = ClosingNote(MAX_FOLLOW_UPS)

C7_Timing ==
    \A l \in sheet :
        /\ l \in DOMAIN active_campaigns =>
               /\ active_campaigns[l].last_contact >=
                      FOLLOW_UP_DAYS * active_campaigns[l].follow_up_count
               /\ active_campaigns[l].next_follow_up =
                      active_campaigns[l].last_contact + FOLLOW_UP_DAYS
        /\ status[l] = ExhaustedStatus => now >= FOLLOW_UP_DAYS * (MAX_FOLLOW_UPS + 1)

C7_FollowUpSchedule ==
    /\ [](C7_Timing)
    /\ [][C7_StartStep /\ C7_TickStep]_vars

C7_Witness ==
    \E l \in sheet :
        /\ now = FOLLOW_UP_DAYS * (MAX_FOLLOW_UPS + 1)
        /\ lastOp.op = "tick"
        /\ lastOp.out = {}
        /\ ~Active(l)
        /\ status[l] = ExhaustedStatus
        /\ last_note[l] = ClosingNote(MAX_FOLLOW_UPS)

(* C8: after handle_reply has processed a reply matched to lead L, L has   *)
(* no active campaign record (also when it had none before); a tick sends  *)
(* nothing to a lead without a record and changes neither its status nor   *)
(* its note; only start_campaign gives a lead a record again.              *)
C8_ReplyStopsFollowUps ==
    [][ \A l \in sheet :
          /\ ( /\ lastOp'.op = "reply"
               /\ MatchingLead(lastOp'.arg.from) = l )
             => l \notin DOMAIN active_campaigns'
          /\ ( /\ l \notin DOMAIN active_campaigns
               /\ lastOp'.op = "tick" )
             => /\ SentTo(lastOp', l) = {}
                /\ l \notin DOMAIN active_campaigns'
                /\ status'[l] = status[l]
                /\ last_note'[l] = last_note[l]
          /\ ( /\ l \notin DOMAIN active_campaigns
               /\ l \in DOMAIN active_campaigns' )
             => lastOp'.op = "start_campaign"
      ]_vars

C8_Witness ==
    \E l \in sheet :
        /\ lastOp.op = "tick"
        /\ ~Active(l)
        /\ status[l] \in {"Replied", "Call Requested"}
        /\ last_note[l].text \in {"Lead replied", "Lead requested a call, sent Calendly link"}
        /\ now >= FOLLOW_UP_DAYS

(* C9: start_campaign for a lead that already has an active campaign       *)
(* record delivers no second initial email and leaves the record as it is. *)
C9_StartKeepsActiveRecord ==
    [][ lastOp'.op = "start_campaign" =>
          \A l \in lastOp'.arg.leads \cap DOMAIN active_campaigns :
              /\ \A a \in SentTo(lastOp', l) : ~a.ok
              /\ l \in DOMAIN active_campaigns'
              /\ active_campaigns'[l] = active_campaigns[l]
      ]_vars

(* C10: once a lead's status is 'Payment Received' (Converted) or          *)
(* 'No Response' (Exhausted), no follow-up tick and no reply handling      *)
(* changes it to a non-terminal one.                                       *)
C10_TerminalStages ==
    [][ \A l \in sheet :
          ( /\ status[l] \in TerminalStatuses
            /\ lastOp'.op \in {"tick", "reply"} )
          => status'[l] \in TerminalStatuses
      ]_vars

(* C11: when the initial dispatch for a lead fails in start_campaign (the  *)
(* send fails or the lead has no email address), the lead's status is not  *)
(* changed, no campaign record is created or altered for it, the returned  *)
(* result reports the lead as Failed with the reason, and a tick never     *)
(* sends a follow-up to a lead that has no campaign record.                *)
C11_FailedStartStep ==
    [][ lastOp'.op = "start_campaign" =>
          \A l \in lastOp'.arg.leads :
              (\A a \in SentTo(lastOp', l) : ~a.ok)
              => /\ status'[l] = status[l]
                 /\ last_note'[l] = last_note[l]
                 /\ (l \in DOMAIN active_campaigns') = (l \in DOMAIN active_campaigns)
                 /\ l \in DOMAIN active_campaigns => active_campaigns'[l] = active_campaigns[l]
                 /\ [id |-> l, status |-> "Failed",
                     reason |-> IF Email(l) = "" THEN "No email address"
                                ELSE "Email sending failed"] \in lastOp'.ret.leads
                 /\ \A e \in lastOp'.ret.leads : e.id = l => e.status = "Failed"
      ]_vars

C11_NoFollowUpWithoutRecord ==
    [][ lastOp'.op = "tick" =>
          \A l \in sheet : SentTo(lastOp', l) # {} => l \in DOMAIN active_campaigns
      ]_vars

C11_FailedStartLeavesNotContacted == C11_FailedStartStep /\ C11_NoFollowUpWithoutRecord

\* a batch in which one lead had no address and another's send failed
C11_Witness ==
    /\ lastOp.op = "start_campaign"
    /\ \E l, m \in lastOp.arg.leads :
        /\ Email(l) = ""
        /\ Email(m) # ""
        /\ \E a \in SentTo(lastOp, m) : ~a.ok
        /\ SentTo(lastOp, l) = {}
        /\ {l, m} \cap DOMAIN active_campaigns = {}
        /\ status[l] = "New"
        /\ status[m] = "New"
        /\ lastOp.ret.failed = 2

(* C12: handle_reply for a reply of a known lead whose body holds a call   *)
(* keyword hands exactly one call_invite message to _send_email, addressed *)
(* to the sender and rendered from the india template set when the lead's  *)
(* country is India, and leaves the lead in the replied stage with the     *)
(* call-request note; for a body without a call keyword it sends nothing   *)
(* and leaves the lead 'Replied'.                                          *)
C12_ReplyRoundTrip ==
    [][ ( /\ lastOp'.op = "reply"
          /\ MatchingLead(lastOp'.arg.from) # NoLead )
        => LET l == MatchingLead(lastOp'.arg.from)
           IN  IF WantsCall(lastOp'.arg.body)
               THEN /\ status'[l] = "Call Requested"
                    /\ last_note'[l].text = "Lead requested a call, sent Calendly link"
                    /\ Cardinality(lastOp'.out) = 1
                    /\ \A a \in lastOp'.out :
                          /\ a.lead = l
                          /\ a.to = lastOp'.arg.from
                          /\ a.stage = "call_invite"
                          /\ Country(l) = "IN" => a.template_set = "india"
                          /\ Country(l) = "US" => a.template_set = "us"
               ELSE /\ status'[l] = "Replied"
                    /\ last_note'[l].text = "Lead replied"
                    /\ lastOp'.out = {}
      ]_vars

\* the India lead asked for a call and the invitation went out
C12_Witness ==
    /\ lastOp.op = "reply"
    /\ lastOp.arg.body = <<"lets", "schedule", "a", "call">>
    /\ MatchingLead(lastOp.arg.from) = "L2"
    /\ Country("L2") = "IN"
    /\ status["L2"] = "Call Requested"
    /\ lastOp.out = {[lead |-> "L2", to |-> "l2@example.com", stage |-> "call_invite",
                      template_set |-> "india", ok |-> TRUE]}

RegionOps == {"_get_smtp_connection", "select_template", "create_payment_link", "suggest_pricing"}

\* countries that are neither US nor India: empty, unknown, missing
UnknownCountries == {"", "Canada", MissingCountry}

(* C13: every region-dependent operation (SMTP provider, template set,     *)
(* payment processor, pricing currency) run for a country that is neither  *)
(* US nor India chooses the US policy and does not raise.                  *)
C13_UnknownCountryIsUs ==
    ( /\ lastOp.op \in RegionOps
      /\ lastOp.arg.country \in UnknownCountries )
    => /\ lastOp.ret.region = "us"
       /\ ~lastOp.ret.raised

(* C16: when the payment processor fails to create the link, the route     *)
(* /api/payment/create answers with an error and no URL value, calls the   *)
(* processor once, records no deal and does not mark the lead as having    *)
(* been sent a payment link.                                               *)
C16_ProcessorFailureSurfaced ==
    [][ ( /\ lastOp'.op = "create_payment"
          /\ lastOp'.ret.processor_failed )
        => /\ ~lastOp'.ret.success
           /\ lastOp'.ret.payment_link = ""
           /\ lastOp'.ret.processor_called = 1
           /\ deals' = deals
           /\ links' = links
           /\ status' = status
      ]_vars

ManagerRegionOps == {"get_payment_processor_for_country", "get_price_for_package"}

(* C14: for every country string, the region PaymentManager chooses for    *)
(* the payment processor and for the currency is the region chosen for     *)
(* email sending, for the template set and for PaymentService's processor. *)
C14_RegionRoutingUniform ==
    ( /\ lastOp.op \in ManagerRegionOps
      /\ lastOp.arg.country \in CountryStrings
      /\ ~lastOp.ret.raised )
    => /\ lastOp.ret.region = RegionOf(SmtpServer(lastOp.arg.country))
       /\ lastOp.ret.region = RegionOf(TemplateSet(lastOp.arg.country))
       /\ lastOp.ret.region = RegionOf(ServiceProcessor(lastOp.arg.country))

\* the countries that indicate India by substring or by country code
IndicatesIndia == {"IN", "India", "india", "INDIA", "Mumbai, India"}

(* C15: get_payment_processor_for_country yields Razorpay and              *)
(* get_price_for_package yields INR exactly for the countries that         *)
(* indicate India by case-insensitive substring or by the code 'IN';       *)
(* every other country yields Stripe and USD.                              *)
C15_RegionPolicyByCountry ==
    ( /\ lastOp.op \in ManagerRegionOps
      /\ lastOp.arg.country \in CountryStrings
      /\ ~lastOp.ret.raised )
    => IF lastOp.arg.country \in IndicatesIndia
       THEN lastOp.ret.choice \in {"razorpay", "INR"}
       ELSE lastOp.ret.choice \in {"stripe", "USD"}

(* C17: a create_payment_link that returns a link appends exactly one deal *)
(* with status Pending for the lead and leaves the lead's status as it was.*)
C17_LinkCreationKeepsStage ==
    [][ ( /\ lastOp'.op = "manager_create_payment_link"
          /\ lastOp'.ret.raised = NoError )
        => /\ Len(deals') = Len(deals) + 1
           /\ deals'[Len(deals')].Lead_ID = lastOp'.arg.lead_id
           /\ deals'[Len(deals')].Status = "Pending"
           /\ lead_status' = lead_status
           /\ status' = status
           /\ active_campaigns' = active_campaigns
      ]_vars

(* C18: every payment link minted for a lead carries that lead's id in the *)
(* metadata / notes sent to the processor.                                 *)
C18_LinkCarriesLeadId ==
    \A i \in 1..Len(links) : links[i].meta_lead_id = links[i].lead

\* the package ids of the pricing table, in any letter case
KnownPackageIds == {"standard", "STANDARD"}

(* C19: create_payment_link with a package id that is not in the pricing   *)
(* table raises the invalid-package error without calling a processor,     *)
(* records no deal and changes no lead; an id of the table is found in any *)
(* letter case.                                                            *)
C19_UnknownPackageRejected ==
    [][ lastOp'.op = "manager_create_payment_link"
        => IF lastOp'.arg.package_id \in KnownPackageIds
           THEN lastOp'.ret.raised # "ValueError: Invalid package ID"
           ELSE /\ lastOp'.ret.raised = "ValueError: Invalid package ID"
                /\ lastOp'.ret.processor_calls = 0
                /\ lastOp'.ret.url = ""
                /\ links' = links
                /\ deals' = deals
                /\ lead_status' = lead_status
      ]_vars

\* an unknown id was rejected and nothing was minted or recorded
C19_Witness ==
    /\ lastOp.op = "manager_create_payment_link"
    /\ lastOp.arg.package_id = "gold"
    /\ lastOp.ret.raised = "ValueError: Invalid package ID"
    /\ Len(links) = 0
    /\ Len(deals) = 0

(* C20: create_payment_link for country "India" and package "standard"     *)
(* that returns a link has asked Razorpay for 80000 INR (8000000 paise),   *)
(* and the deal it records has price 80000, currency INR and payment       *)
(* method razorpay.                                                        *)
C20_IndiaStandardLink ==
    [][ ( /\ lastOp'.op = "manager_create_payment_link"
          /\ lastOp'.arg.country = "India"
          /\ lastOp'.arg.package_id = "standard"
          /\ lastOp'.ret.raised = NoError )
        => /\ Len(links') = Len(links) + 1
           /\ links'[Len(links')].processor = "razorpay"
           /\ links'[Len(links')].currency = "INR"
           /\ links'[Len(links')].amount = 80000 * 100
           /\ deals' # deals
              => /\ Len(deals') = Len(deals) + 1
                 /\ deals'[Len(deals')].Currency = "INR"
                 /\ deals'[Len(deals')].Price = 80000
                 /\ deals'[Len(deals')].Payment_Method = "razorpay"
                 /\ deals'[Len(deals')].Package = "Standard AI Sales Automation"
                 /\ deals'[Len(deals')].Lead_ID = lastOp'.arg.lead_id
      ]_vars

\* the India link was minted and its deal recorded
C20_Witness ==
    /\ lastOp.op = "manager_create_payment_link"
    /\ lastOp.arg.country = "India"
    /\ lastOp.arg.package_id = "standard"
    /\ lastOp.ret.raised = NoError
    /\ Len(deals) = 1
    /\ deals[1].Currency = "INR"
    /\ deals[1].Payment_Method = "razorpay"
    /\ Len(links) = 1
    /\ links[1].currency = "INR"


----------------------------------------------------------------------------
(* The webhook endpoints of app.py: POST /api/webhook/email and            *)
(* POST /api/webhook/payment.  Each calls its service and answers          *)
(* {"success": True} whatever the service returned.                        *)

\* metadata.lead_id / notes.lead_id absent: .get("lead_id", "")
NoLeadId == ""

\* the ids a payment event can carry: a row, none, or an id no row holds
WebhookLeadIds == sheet \cup {NoLeadId, UnknownLeadId}

\* jsonify({"success": True})
HttpOk == [http |-> 200, success |-> TRUE]

(* email_webhook(): email_service.handle_reply(request.json); the value    *)
(* handle_reply returns is dropped.                                        *)
EmailWebhook ==
    /\ replyPc = "idle"
    /\ \E from_email \in {Email(l) : l \in sheet} \cup {UnknownEmail}, body \in Bodies :
        LET lead_id == MatchingLead(from_email)
            arg == [from |-> from_email, body |-> body]
        IN  IF lead_id = NoLead
            THEN /\ lastOp' = OpRet("email_webhook", arg, {}, HttpOk)
                 /\ UNCHANGED <<payVars, socialVars, sheet, now, active_campaigns, status, last_note, threadVars>>
            ELSE /\ active_campaigns' = Without(active_campaigns, {lead_id})
                 /\ tickItems' = Detach(tickItems, {lead_id})
                 /\ tickCur' = DetachCur(tickCur, {lead_id})
                 /\ IF WantsCall(body)
                    THEN \E ok \in BOOLEAN :
                           /\ lastOp' = OpRet("email_webhook", arg,
                                              {Dispatch(lead_id, "call_invite", ok)}, HttpOk)
                           /\ status' = UpdateStatus(status, lead_id, "Call Requested")
                           /\ last_note' = UpdateNote(last_note, lead_id,
                                  Note("Lead requested a call, sent Calendly link", 0))
                    ELSE /\ lastOp' = OpRet("email_webhook", arg, {}, HttpOk)
                         /\ status' = UpdateStatus(status, lead_id, "Replied")
                         /\ last_note' = UpdateNote(last_note, lead_id, Note("Lead replied", 0))
                 /\ UNCHANGED <<payVars, socialVars, sheet, now, tickPc, tickNow, replyPc, replyCur>>

(* payment_webhook(): payment_service.handle_webhook(request.json).  The   *)
(* handler of the source runs only for its own success event and only     *)
(* with a non-empty lead id; update_lead and get_lead find no row for an   *)
(* id the sheet does not hold, and _send_onboarding_email(None) fails      *)
(* inside its own try.                                                     *)
PaymentWebhook ==
    \E source \in PaymentSources, event \in PaymentEvents, lead_id \in WebhookLeadIds :
        LET arg == [source |-> source, event |-> event, lead_id |-> lead_id]
        IN  IF IsPaymentSuccess(source, event) /\ lead_id # NoLeadId
            THEN \E onboarding \in OnboardingOutcomes :
                 /\ status' = UpdateStatus(status, lead_id,
                        IF onboarding = "sent" THEN "Onboarding" ELSE "Payment Received")
                 /\ last_note' = UpdateNote(last_note, lead_id,
                        IF onboarding = "sent" THEN Note("Sent onboarding email", 0)
                        ELSE Note("Received payment", 0))
                 /\ lastOp' = OpRet("payment_webhook", arg,
                        IF onboarding = "import" \/ lead_id \notin sheet THEN {}
                        ELSE {Message(lead_id, "onboarding",
                                      IF Country(lead_id) = "US" THEN "us" ELSE "india",
                                      onboarding = "sent")},
                        HttpOk)
                 /\ UNCHANGED <<payVars, socialVars, sheet, now, active_campaigns, threadVars>>
            ELSE /\ lastOp' = OpRet("payment_webhook", arg, {}, HttpOk)
                 /\ UNCHANGED <<payVars, socialVars, sheet, now, active_campaigns, status, last_note, threadVars>>

InitWebhook == InitWith(AllLeads) /\ config = FullConfig

NextWebhook ==
    \/ ConcStart
    \/ EmailWebhook
    \/ PaymentWebhook

SpecWebhook == InitWebhook /\ [][NextWebhook]_vars

(* C21: an unrecognized event is dropped without effect.  A reply whose    *)
(* sender matches no stored lead, a payment webhook from an unknown        *)
(* source, one that is not a payment-succeeded event, or one that carries  *)
(* no lead id changes no lead status, no note and no campaign record and   *)
(* sends no message, and the HTTP endpoint still answers success.          *)
C21_Unrecognized ==
    \/ /\ lastOp.op = "email_webhook"
       /\ lastOp.arg.from \notin {Email(l) : l \in sheet}
    \/ /\ lastOp.op = "payment_webhook"
       /\ \/ lastOp.arg.source \notin {"stripe", "razorpay"}
          \/ lastOp.arg.source = "stripe" /\ lastOp.arg.event # "checkout.session.completed"
          \/ lastOp.arg.source = "razorpay" /\ lastOp.arg.event # "payment.authorized"
          \/ lastOp.arg.lead_id = ""

C21_UnrecognizedEventDropped ==
    [][C21_Unrecognized' =>
          /\ UNCHANGED <<status, last_note, active_campaigns>>
          /\ lastOp'.out = {}
          /\ lastOp'.ret = [http |-> 200, success |-> TRUE]]_vars

\* each kind of unrecognized event arrives while a campaign record is active
C21_Witness ==
    /\ C21_Unrecognized
    /\ lastOp.op = "payment_webhook"
    /\ lastOp.arg.lead_id = ""
    /\ lastOp.arg.source = "stripe"
    /\ lastOp.arg.event = "checkout.session.completed"
    /\ DOMAIN active_campaigns # {}
    /\ \E l \in sheet : status[l] = "Initial Contact"

----------------------------------------------------------------------------
(* Templates of EmailService: lookup and personalisation.  A template is   *)
(* the sequence of its pieces, literal text and {{...}} tokens; str.replace *)
(* of a token rewrites every piece that is that token.                     *)

\* stages the template table has no key for
UnknownStages == {"follow_up_4", "welcome"}

\* template sets: the two of the table and one it does not hold
TemplateSets == {"us", "india", "uk"}

\* templates.get(country_code, templates["us"])
TemplateData(country_code) == IF country_code \in {"us", "india"} THEN country_code ELSE "us"

(* _get_email_templates(sequence_type) followed by                         *)
(* templates.get(country_code, templates["us"]): the (stage, set) whose    *)
(* subject and body are rendered.                                          *)
LookupTemplate ==
    /\ \E stage \in TemplateStages \cup UnknownStages, template_set \in TemplateSets :
         lastOp' = OpRet("lookup_template", [stage |-> stage, template_set |-> template_set], {},
                         [raised |-> "none",
                          stage |-> GetEmailTemplates(stage),
                          template_set |-> TemplateData(template_set)])
    /\ UNCHANGED <<payVars, socialVars, sheet, now, active_campaigns, status, last_note, threadVars>>

\* a key the lead dict does not hold
Absent == "<absent>"

\* os.environ.get('CALENDLY_LINK', 'https://calendly.com/yourusername')
calendly_link == "https://calendly.com/yourusername"

\* lead.get(field, default)
Get(lead, field, default) == IF lead[field] = Absent THEN default ELSE lead[field]

\* the lead dicts templates are personalised with
LeadDicts ==
    [first_name : {Absent, "Ann"},
     last_name : {Absent},
     company : {Absent, "Acme Agency"},
     industry : {"N/A", "Retail"},
     title : {Absent, "Head Coach"},
     country : {"US"},
     payment_link : {Absent, "https://pay.example/1"},
     price : {Absent, "2,500.00"}]

\* bodies of the pricing_info, initial and call_invite templates of the us set
PricingBody ==
    <<"Hi", "{{first_name}}", "services for", "{{company}}", "would be $", "{{price}}",
      "href=", "{{payment_link}}">>

InitialBody ==
    <<"Hi", "{{first_name}}", "owner of", "{{company}}", "helping", "{{business_type}}">>

CallInviteBody ==
    <<"Hi", "{{first_name}}", "help", "{{company}}", "href=", "{{calendly_link}}">>

TemplateTexts == {PricingBody, InitialBody, CallInviteBody}

\* business_type of _personalize_template
BusinessType(lead) ==
    LET business_type == Get(lead, "industry", "business")
    IN  IF business_type = "" \/ Lower(Chars(business_type)) = Chars("n/a")
        THEN IF Contains(Chars("agency"), Lower(Chars(Get(lead, "company", ""))))
             THEN "digital agency"
             ELSE IF Contains(Chars("coach"), Lower(Chars(Get(lead, "title", ""))))
             THEN "coaching business"
             ELSE IF Contains(Chars("consult"), Lower(Chars(Get(lead, "title", ""))))
             THEN "consulting business"
             ELSE "business"
        ELSE business_type

\* the replacements dict, in insertion order
Replacements(lead) ==
    << <<"{{first_name}}", Get(lead, "first_name", "there")>>,
       <<"{{last_name}}", Get(lead, "last_name", "")>>,
       <<"{{company}}", Get(lead, "company", "your business")>>,
       <<"{{business_type}}", BusinessType(lead)>>,
       <<"{{country}}", IF lead.country = "US" THEN "the United States" ELSE "India">>,
       <<"{{calendly_link}}", calendly_link>>,
       <<"{{payment_link}}", Get(lead, "payment_link", "#")>> >>

\* personalized.replace(key, value)
Replace(text, key, value) ==
    [i \in 1..Len(text) |-> IF text[i] = key THEN value ELSE text[i]]

RECURSIVE ApplyReplacements(_, _)
\* for key, value in replacements.items(): personalized = personalized.replace(key, value)
ApplyReplacements(text, pairs) ==
    IF pairs = << >> THEN text
    ELSE ApplyReplacements(Replace(text, Head(pairs)[1], Head(pairs)[2]), Tail(pairs))

\* _personalize_template(template, lead)
PersonalizeTemplateText(template, lead) == ApplyReplacements(template, Replacements(lead))

(* EmailService._personalize_template(template, lead): the returned text,  *)
(* and the template and lead as they are after the call.                   *)
PersonalizeTemplate ==
    /\ \E template \in TemplateTexts, lead \in LeadDicts :
         lastOp' = OpRet("_personalize_template", [template |-> template, lead |-> lead], {},
                         [raised |-> FALSE,
                          text |-> PersonalizeTemplateText(template, lead),
                          template |-> template,
                          lead |-> lead])
    /\ UNCHANGED <<payVars, socialVars, sheet, now, active_campaigns, status, last_note, threadVars>>

\* the dict of a sheet row, as the caller passes it to send_payment_link
LeadDict(l) ==
    [first_name |-> "Ann", last_name |-> Absent, company |-> "Acme Agency",
     industry |-> "Retail", title |-> Absent, country |-> Country(l),
     payment_link |-> Absent, price |-> Absent]

\* f"{amount:,.2f}" for "US", f"{int(amount):,}" otherwise
FormatPrice(country, amount) ==
    CASE amount = 2500 /\ country = "US" -> "2,500.00"
      [] amount = 2500 /\ country # "US" -> "2,500"

(* EmailService.send_payment_link(lead, amount): stores the formatted      *)
(* price in the lead, renders pricing_info and sends it; a successful send *)
(* sets the status and removes the campaign record.                        *)
SendPaymentLink ==
    \E l \in sheet, amount \in Amounts, ok \in BOOLEAN :
        LET lead == [LeadDict(l) EXCEPT !.price = FormatPrice(Country(l), amount)]
            sent == Email(l) # "" /\ ok
        IN  /\ lastOp' = OpRet("send_payment_link", [lead_id |-> l, amount |-> amount],
                               IF Email(l) = "" THEN {} ELSE {Dispatch(l, "pricing_info", ok)},
                               [success |-> sent,
                                lead |-> lead,
                                body |-> IF Email(l) = "" THEN << >>
                                         ELSE PersonalizeTemplateText(PricingBody, lead)])
            /\ status' = IF sent THEN UpdateStatus(status, l, "Payment Link Sent") ELSE status
            /\ last_note' = IF sent THEN UpdateNote(last_note, l, Note("Sent payment link", 0))
                            ELSE last_note
            /\ active_campaigns' = IF sent THEN Without(active_campaigns, {l})
                                   ELSE active_campaigns
            /\ tickItems' = IF sent THEN Detach(tickItems, {l}) ELSE tickItems
            /\ tickCur' = IF sent THEN DetachCur(tickCur, {l}) ELSE tickCur
            /\ UNCHANGED <<payVars, socialVars, sheet, now, tickPc, tickNow, replyPc, replyCur>>

InitTemplates == InitWith({"L1"}) /\ config = FullConfig

NextTemplates ==
    \/ LookupTemplate
    \/ PersonalizeTemplate
    \/ SendPaymentLink

SpecTemplates == InitTemplates /\ [][NextTemplates]_vars

(* C22: template lookup by (stage, template_set).  A stage of the table    *)
(* with a template_set the stage does not hold uses that stage's 'us'      *)
(* template; a stage the table does not hold fails with TemplateNotFound   *)
(* and never renders another stage's template.                             *)
C22_TemplateLookup ==
    [][lastOp'.op = "lookup_template" =>
          IF lastOp'.arg.stage \in TemplateStages
          THEN /\ lastOp'.ret.raised = "none"
               /\ lastOp'.ret.stage = lastOp'.arg.stage
               /\ lastOp'.ret.template_set =
                      (IF lastOp'.arg.template_set \in {"us", "india"}
                       THEN lastOp'.arg.template_set ELSE "us")
          ELSE lastOp'.ret.raised = "TemplateNotFound"]_vars

\* the lead field a token names
TokenField ==
    [t \in {"{{first_name}}", "{{last_name}}", "{{company}}", "{{payment_link}}", "{{price}}"} |->
        CASE t = "{{first_name}}" -> "first_name"
          [] t = "{{last_name}}" -> "last_name"
          [] t = "{{company}}" -> "company"
          [] t = "{{payment_link}}" -> "payment_link"
          [] t = "{{price}}" -> "price"]

(* C23: rendering is lenient literal token replacement.  Every token whose *)
(* field the lead holds is replaced by the field's value, every token      *)
(* whose field the lead does not hold is left verbatim, rendering never    *)
(* raises for a missing field, and template and lead are as before.        *)
C23_LenientRendering ==
    [][lastOp'.op = "_personalize_template" =>
          LET template == lastOp'.arg.template
              lead == lastOp'.arg.lead
              text == lastOp'.ret.text
          IN  /\ lastOp'.ret.raised = FALSE
              /\ lastOp'.ret.template = template
              /\ lastOp'.ret.lead = lead
              /\ Len(text) = Len(template)
              /\ \A i \in 1..Len(template) :
                     IF template[i] \in DOMAIN TokenField
                     THEN text[i] = (IF lead[TokenField[template[i]]] # Absent
                                     THEN lead[TokenField[template[i]]]
                                     ELSE template[i])
                     ELSE template[i] \in {"{{business_type}}", "{{calendly_link}}"}
                          \/ text[i] = template[i]]_vars

----------------------------------------------------------------------------
(* start_campaign over a sheet that holds a row without an email address   *)
(* next to two rows with one.                                              *)

InitBatch == InitWith({NoEmailLead, "L1", "L2"}) /\ config = FullConfig

NextBatch ==
    \/ ConcStart
    \/ HandleReply

SpecBatch == InitBatch /\ [][NextBatch]_vars

(* C24: start_campaign over N leads returns a partial result and never     *)
(* aborts the batch because one lead fails: success + failed = N, the      *)
(* result holds exactly one entry per input lead, every lead with an       *)
(* address is attempted whatever happened to the leads before it, and the  *)
(* entry of each failed lead records the reason.                           *)
C24_BatchPartialResult ==
    [][lastOp'.op = "start_campaign" =>
          LET batch == lastOp'.arg.leads
              ret == lastOp'.ret
          IN  /\ ret.success + ret.failed = Cardinality(batch)
              /\ Cardinality(ret.leads) = Cardinality(batch)
              /\ \A l \in batch : \E e \in ret.leads : e.id = l
              /\ Cardinality({e \in ret.leads : e.status = "Failed"}) = ret.failed
              /\ Cardinality({e \in ret.leads : e.status = "Success"}) = ret.success
              /\ \A e \in ret.leads : e.status = "Failed" => e.reason # ""
              /\ \A l \in batch : Email(l) # "" => \E m \in lastOp'.out : m.lead = l]_vars

\* a batch of three: no address, a failed send, then a successful send
C24_Witness ==
    /\ lastOp.op = "start_campaign"
    /\ lastOp.arg.leads = {NoEmailLead, "L1", "L2"}
    /\ lastOp.ret.failed = 2
    /\ lastOp.ret.success = 1
    /\ \E m \in lastOp.out : m.lead = "L1" /\ ~m.ok
    /\ "L2" \in DOMAIN active_campaigns

----------------------------------------------------------------------------
(* Analytics of lead-automation-system1: SheetsService.get_analytics_data  *)
(* and TrackingService._calculate_metrics over a snapshot of the two lead  *)
(* sheets.  A reported number is kept as the exact fraction of hundredths  *)
(* of a percent it stands for: 10.0 is 1000/1, 33.333... is 10000/3.  For  *)
(* the totals of the snapshots the double the code computes is a           *)
(* two-decimal number exactly when this fraction is whole.                 *)

AnalyticsStatuses ==
    {"New", "Replied", "Call Requested", "Call Scheduled", "Payment Link Sent",
     "Payment Received", "Onboarding"}

\* number of rows of one lead sheet
SnapshotTotals == {0, 3, 5}

(* one lead sheet: its number of rows and the status of its first row; the *)
(* other rows are "New"                                                    *)
SheetSnapshots ==
    {[total |-> 0, first |-> "New"]} \cup
    [total : SnapshotTotals \ {0}, first : AnalyticsStatuses]

\* analytics[...]["by_status"].get(st, 0)
ByStatus(snap, st) ==
    IF snap.total = 0 THEN 0
    ELSE (IF snap.first = st THEN 1 ELSE 0) + (IF st = "New" THEN snap.total - 1 ELSE 0)

RECURSIVE GCD(_, _)
GCD(a, b) == IF b = 0 THEN a ELSE GCD(b, a % b)

\* the fraction num/den of hundredths, in lowest terms
Number(num, den) ==
    IF num = 0 THEN [num |-> 0, den |-> 1]
    ELSE [num |-> num \div GCD(num, den), den |-> den \div GCD(num, den)]

\* (part / total) * 100
Percent(part, total) == Number(part * 10000, total)

\* _calculate_percentage: round((part / total) * 100, 2), 0.0 when total is 0
CalculatePercentage(part, total) ==
    IF total = 0 THEN Number(0, 1)
    ELSE LET q == (part * 10000) \div total
             r == (part * 10000) % total
         IN  IF 2 * r > total \/ (2 * r = total /\ q % 2 = 1)
             THEN Number(q + 1, 1) ELSE Number(q, 1)

\* get_analytics_data: overall_conversion_rate, 0 unless total_leads > 0
OverallConversionRate(us, india) ==
    IF us.total + india.total > 0
    THEN Percent(ByStatus(us, "Payment Received") + ByStatus(india, "Payment Received"),
                 us.total + india.total)
    ELSE Number(0, 1)

\* _calculate_metrics: the rates of one country, none when it has no leads
CountryMetrics(snap) ==
    IF snap.total = 0 THEN << >>
    ELSE [reply_rate |->
              CalculatePercentage(ByStatus(snap, "Replied") + ByStatus(snap, "Call Requested"),
                                  snap.total),
          call_rate |->
              CalculatePercentage(ByStatus(snap, "Call Requested")
                                  + ByStatus(snap, "Call Scheduled"), snap.total),
          payment_rate |->
              CalculatePercentage(ByStatus(snap, "Payment Link Sent")
                                  + ByStatus(snap, "Payment Received"), snap.total),
          conversion_rate |->
              CalculatePercentage(ByStatus(snap, "Payment Received")
                                  + ByStatus(snap, "Onboarding"), snap.total)]

\* _calculate_metrics: the overall rates, none when there are no leads
OverallMetrics(us, india) ==
    LET total_leads == us.total + india.total
        both(st) == ByStatus(us, st) + ByStatus(india, st)
    IN  IF total_leads = 0 THEN << >>
        ELSE [reply_rate |->
                  CalculatePercentage(both("Replied") + both("Call Requested"), total_leads),
              call_rate |->
                  CalculatePercentage(both("Call Requested") + both("Call Scheduled"),
                                      total_leads),
              payment_rate |-> CalculatePercentage(both("Payment Link Sent"), total_leads),
              conversion_rate |->
                  CalculatePercentage(both("Payment Received") + both("Onboarding"),
                                      total_leads),
              us_percentage |-> CalculatePercentage(us.total, total_leads),
              india_percentage |-> CalculatePercentage(india.total, total_leads)]

(* TrackingService.get_analytics(): the data of get_analytics_data and the *)
(* metrics computed from it.                                               *)
GetAnalytics ==
    /\ \E us \in SheetSnapshots, india \in SheetSnapshots :
         lastOp' = OpRet("get_analytics", [us_leads |-> us, india_leads |-> india], {},
                         [data |-> [overall_conversion_rate |-> OverallConversionRate(us, india)],
                          metrics |-> [overall |-> OverallMetrics(us, india),
                                       by_country |-> [US |-> CountryMetrics(us),
                                                       India |-> CountryMetrics(india)]]])
    /\ UNCHANGED <<payVars, socialVars, sheet, now, active_campaigns, status, last_note,
                   threadVars>>

InitAnalytics == InitWith({"L1"}) /\ config = FullConfig

NextAnalytics == GetAnalytics

SpecAnalytics == InitAnalytics /\ [][NextAnalytics]_vars

\* v is part/total as a percentage rounded to two decimals, 0 when total is 0
C25_IsRate(v, part, total) ==
    IF total = 0 THEN v = [num |-> 0, den |-> 1]
    ELSE /\ v.den = 1
         /\ 2 * (v.num * total - part * 10000) <= total
         /\ 2 * (part * 10000 - v.num * total) <= total

(* C25: every analytics rate is count_for_statuses / total as a percentage *)
(* rounded to 2 decimals, 0 when total is 0; for a snapshot of 10 leads    *)
(* with exactly 1 lead in a converted status ('Payment Received' or        *)
(* 'Onboarding') every overall conversion rate of the result is 10.0.      *)
C25_AnalyticsRates ==
    [][lastOp'.op = "get_analytics" =>
          LET us == lastOp'.arg.us_leads
              india == lastOp'.arg.india_leads
              total == us.total + india.total
              count(S) == Cardinality({c \in {"us", "india"} :
                              (IF c = "us" THEN us ELSE india).total > 0
                              /\ (IF c = "us" THEN us ELSE india).first \in S})
              converted == count({"Payment Received", "Onboarding"})
              overall == lastOp'.ret.metrics.overall
              data == lastOp'.ret.data
          IN  /\ C25_IsRate(data.overall_conversion_rate, converted, total)
              /\ "conversion_rate" \in DOMAIN overall =>
                     C25_IsRate(overall.conversion_rate, converted, total)
              /\ "reply_rate" \in DOMAIN overall =>
                     C25_IsRate(overall.reply_rate, count({"Replied", "Call Requested"}), total)
              /\ (total = 10 /\ converted = 1) =>
                     /\ data.overall_conversion_rate = [num |-> 1000, den |-> 1]
                     /\ overall.conversion_rate = [num |-> 1000, den |-> 1]]_vars

----------------------------------------------------------------------------
(* Social outreach of ai-sales-automation: SocialOutreachManager over the  *)
(* Leads and Outreach worksheets of GoogleSheetsManager.  `now` counts     *)
(* days; Date_Sent of an outreach row is the day it was appended.          *)

\* OutreachConfig.FOLLOW_UP_DAYS
OUTREACH_FOLLOW_UP_DAYS == 3

\* OutreachConfig.MAX_FOLLOW_UPS
OUTREACH_MAX_FOLLOW_UPS == 3

\* rows of the Outreach worksheet a behaviour may reach
MaxOutreach == 6

\* the last day a daily run is made on, for one lead row and for several
MaxSocialDay == 9

MaxSocialDayMany == 3

\* the rows of the Leads worksheet; the id of a row is its number
SocialLeads == DOMAIN lead_status

\* the rows in sheet order
LeadRows == IF "3" \in SocialLeads THEN <<"2", "3">> ELSE <<"2">>

SocialHorizon == IF Cardinality(SocialLeads) <= 1 THEN MaxSocialDay ELSE MaxSocialDayMany

\* cells X_Username and Instagram_Username of a row
XUsername(l) == IF l = "2" THEN "ann_x" ELSE ""

InstagramUsername(l) == IF l = "3" THEN "bob_ig" ELSE ""

(* Header row of the Leads worksheet: "standard" is LEADS_COLUMNS, which    *)
(* append_leads writes; "extended" also has the columns id, x_username and  *)
(* instagram_username, which _ensure_headers leaves in place.               *)
LeadColumns == {"standard", "extended"}

\* "id" in lead, for a dict of get_all_records
HasId == lead_columns = "extended"

\* lead.get("x_username") / lead.get("instagram_username")
x_username(l) == IF lead_columns = "extended" THEN XUsername(l) ELSE ""

instagram_username(l) == IF lead_columns = "extended" THEN InstagramUsername(l) ELSE ""

\* the platform execute_daily_outreach picks for a lead
PlatformOf(l) ==
    IF x_username(l) # "" THEN "x"
    ELSE IF instagram_username(l) # "" THEN "instagram" ELSE "none"

\* record_outreach: the row appended to the Outreach worksheet
OutreachRow(lead_id, platform, action, day) ==
    [Lead_ID |-> lead_id, Platform |-> platform, Action |-> action, Date_Sent |-> day,
     Response |-> "", Follow_Up_Count |-> 0]

(* get_leads_for_follow_up: lead_outreach.get(lead_id, {}), the row of the *)
(* lead with the latest Date_Sent                                          *)
OutreachData(records, l, day) ==
    LET mine == {i \in 1..Len(records) : records[i].Lead_ID = l}
    IN  IF mine = {}
        THEN [present |-> FALSE, days_since |-> 0, follow_up_count |-> 0,
              has_response |-> FALSE]
        ELSE LET latest == CHOOSE i \in mine : \A j \in mine :
                               \/ records[j].Date_Sent < records[i].Date_Sent
                               \/ records[j].Date_Sent = records[i].Date_Sent /\ j <= i
             IN  [present |-> TRUE,
                  days_since |-> day - records[latest].Date_Sent,
                  follow_up_count |-> records[latest].Follow_Up_Count,
                  has_response |-> records[latest].Response # ""]

\* get_leads_for_follow_up: whether the row is put on the list
NeedsFollowUp(records, l, day) ==
    LET outreach_data == OutreachData(records, l, day)
    IN  /\ XUsername(l) # "" \/ InstagramUsername(l) # ""
        /\ ~(outreach_data.has_response
             \/ outreach_data.follow_up_count >= OUTREACH_MAX_FOLLOW_UPS)
        /\ \/ ~outreach_data.present
           \/ outreach_data.days_since >= OUTREACH_FOLLOW_UP_DAYS

\* get_leads_for_follow_up(days_since_last_contact, max_follow_ups)
GetLeadsForFollowUp(records, day) ==
    LET Keep(l) == NeedsFollowUp(records, l, day)
    IN  SelectSeq(LeadRows, Keep)

\* get_leads(filters={"Status": "New"})
GetNewLeads(ls) ==
    LET Keep(l) == ls[l] = "New"
    IN  SelectSeq(LeadRows, Keep)

\* one direct message handed to a platform API, and whether it was delivered
Dm(l, action, ok) == [lead |-> l, action |-> action, ok |-> ok]

(* check_for_responses found a reply: the reply is recorded and the lead   *)
(* set to "Engaged"; send_positive_response then sends its message and, if *)
(* delivered, records it and sets the lead to "Opportunity".               *)
AnswerReply(st, l, dmOk, day) ==
    LET replied == [st EXCEPT
                       !.recs = Append(@, OutreachRow(l, PlatformOf(l), "received_reply", day)),
                       !.ls = UpdateLeadStatus(@, l, "Engaged")]
    IN  IF l \in dmOk
        THEN [replied EXCEPT
                 !.msgs = Append(@, Dm(l, "positive_response", TRUE)),
                 !.recs = Append(@, OutreachRow(l, PlatformOf(l), "positive_response", day)),
                 !.ls = UpdateLeadStatus(@, l, "Opportunity")]
        ELSE [replied EXCEPT !.msgs = Append(@, Dm(l, "positive_response", FALSE))]

\* send_follow_up(lead, platform, follow_up_count) and the count of the caller
SendFollowUp(st, l, follow_up_count, dmOk, day) ==
    IF PlatformOf(l) = "none" \/ follow_up_count >= OUTREACH_MAX_FOLLOW_UPS THEN st
    ELSE IF l \in dmOk
    THEN [st EXCEPT
             !.msgs = Append(@, Dm(l, "follow_up", TRUE)),
             !.recs = Append(@, OutreachRow(l, PlatformOf(l), "follow_up", day)),
             !.dms = @ + 1]
    ELSE [st EXCEPT !.msgs = Append(@, Dm(l, "follow_up", FALSE))]

\* execute_daily_outreach: the loop over follow_up_leads
RECURSIVE ProcessFollowUpLeads(_, _, _, _, _, _)
ProcessFollowUpLeads(st, leads, limit_dms, dmOk, replies, day) ==
    IF leads = << >> THEN st
    ELSE LET l == Head(leads)
         IN  IF PlatformOf(l) # "none" /\ l \in replies
             THEN ProcessFollowUpLeads(AnswerReply(st, l, dmOk, day), Tail(leads),
                                       limit_dms, dmOk, replies, day)
             ELSE LET after == SendFollowUp(st, l,
                                   OutreachData(outreach, l, day).follow_up_count, dmOk, day)
                  IN  IF after.dms >= limit_dms THEN after
                      ELSE ProcessFollowUpLeads(after, Tail(leads), limit_dms, dmOk,
                                                replies, day)

\* follow_lead, then send_initial_dm while the DM limit is not reached
FollowAndGreet(st, l, limit_dms, dmOk, followOk, day) ==
    IF l \notin followOk THEN st
    ELSE LET followed == [st EXCEPT !.follows = @ + 1]
         IN  IF followed.dms >= limit_dms THEN followed
             ELSE IF l \in dmOk
             THEN [followed EXCEPT
                      !.msgs = Append(@, Dm(l, "initial_dm", TRUE)),
                      !.recs = Append(@, OutreachRow(l, PlatformOf(l), "initial_dm", day)),
                      !.dms = @ + 1,
                      !.ls = UpdateLeadStatus(@, l, "Contacted")]
             ELSE [followed EXCEPT !.msgs = Append(@, Dm(l, "initial_dm", FALSE))]

\* execute_daily_outreach: the loop over the leads with Status "New"
RECURSIVE ProcessNewLeads(_, _, _, _, _, _, _)
ProcessNewLeads(st, leads, limit_dms, limit_follows, dmOk, followOk, day) ==
    IF leads = << >> THEN st
    ELSE LET l == Head(leads)
             after == IF HasId /\ PlatformOf(l) # "none" /\ st.follows < limit_follows
                      THEN FollowAndGreet(st, l, limit_dms, dmOk, followOk, day)
                      ELSE st
         IN  IF HasId /\ after.follows >= limit_follows /\ after.dms >= limit_dms THEN after
             ELSE ProcessNewLeads(after, Tail(leads), limit_dms, limit_follows, dmOk,
                                  followOk, day)

\* the limits execute_daily_outreach is called with
DmLimits == {1, 2}

FollowLimits == {1}

(* SocialOutreachManager.execute_daily_outreach(limit_follows, limit_dms), *)
(* run to its end: follow-ups first, then the new leads.  The scheduler    *)
(* of main.py starts it once a day, so the next run is a day later.        *)
ExecuteDailyOutreach ==
    /\ Len(outreach) < MaxOutreach
    /\ now <= SocialHorizon
    /\ now' = now + 1
    /\ \E limit_dms \in DmLimits, limit_follows \in FollowLimits,
          dmOk \in SUBSET SocialLeads, followOk \in SUBSET SocialLeads :
        LET start == [dms |-> 0, follows |-> 0, recs |-> outreach, ls |-> lead_status,
                      msgs |-> << >>]
            follow_up_leads == GetLeadsForFollowUp(outreach, now)
            first == ProcessFollowUpLeads(start, follow_up_leads, limit_dms, dmOk, inbox, now)
            final == IF first.dms < limit_dms
                     THEN ProcessNewLeads(first, GetNewLeads(first.ls), limit_dms,
                                          limit_follows, dmOk, followOk, now)
                     ELSE first
        IN  /\ outreach' = final.recs
            /\ lead_status' = final.ls
            /\ lastOp' = OpRet("execute_daily_outreach",
                               [limit_dms |-> limit_dms, limit_follows |-> limit_follows], {},
                               [follow_up_leads |-> follow_up_leads,
                                dms |-> final.msgs,
                                dms_count |-> final.dms,
                                follows_count |-> final.follows])
    /\ UNCHANGED <<inbox, lead_columns, links, deals, config, sheet, active_campaigns,
                   status, last_note, threadVars>>

\* a lead answers a message on its platform; the platform keeps the reply
LeadReplies ==
    /\ \E l \in SocialLeads \ inbox :
         /\ \E i \in 1..Len(outreach) : outreach[i].Lead_ID = l
         /\ inbox' = inbox \cup {l}
         /\ lastOp' = Op("lead_replies", [lead |-> l], {})
    /\ UNCHANGED <<outreach, lead_columns, payVars, sheet, now, active_campaigns, status,
                   last_note, threadVars>>

InitSocial ==
    /\ sheet = {"L1"}
    /\ now = 0
    /\ active_campaigns = << >>
    /\ status = [l \in {"L1"} |-> "New"]
    /\ last_note = [l \in {"L1"} |-> NoNote]
    /\ lastOp = [op |-> "init", arg |-> NoArg, out |-> {}, ret |-> NoRet, rep |-> FALSE]
    /\ tickPc = "idle"
    /\ tickNow = 0
    /\ tickItems = << >>
    /\ tickCur = NoCur
    /\ replyPc = "idle"
    /\ replyCur = NoArg
    /\ links = << >>
    /\ deals = << >>
    /\ config = FullConfig
    /\ \E rows \in {{"2"}, {"2", "3"}} : lead_status = [l \in rows |-> "New"]
    /\ outreach = << >>
    /\ inbox = {}
    /\ lead_columns \in LeadColumns

NextSocial ==
    \/ LeadReplies
    \/ ExecuteDailyOutreach

SpecSocial == InitSocial /\ [][NextSocial]_vars

\* the direct messages a run delivered
C26_Delivered(op) == {i \in 1..Len(op.ret.dms) : op.ret.dms[i].ok}

C27_Rows(l, action) ==
    {i \in 1..Len(outreach) : outreach[i].Lead_ID = l /\ outreach[i].Action = action}

(* C27: get_leads_for_follow_up never returns a lead that has been sent    *)
(* max_follow_ups follow-ups or whose response has been recorded; so over  *)
(* any number of daily runs a lead that never responds is sent at most     *)
(* MAX_FOLLOW_UPS follow-ups, and a lead whose reply was detected gets no  *)
(* further follow-up and no second positive-response message.              *)
C27_FollowUpListStep ==
    lastOp'.op = "execute_daily_outreach" =>
        \A i \in 1..Len(lastOp'.ret.follow_up_leads) :
            LET l == lastOp'.ret.follow_up_leads[i]
            IN  /\ Cardinality(C27_Rows(l, "follow_up")) < OUTREACH_MAX_FOLLOW_UPS
                /\ C27_Rows(l, "received_reply") = {}

C27_FollowUpsBounded ==
    \A l \in SocialLeads :
        /\ Cardinality(C27_Rows(l, "follow_up")) <= OUTREACH_MAX_FOLLOW_UPS
        /\ Cardinality(C27_Rows(l, "positive_response")) <= 1
        /\ \A i \in C27_Rows(l, "received_reply"), j \in C27_Rows(l, "follow_up") : j < i

----------------------------------------------------------------------------
(* A restart of the backend process.  app.py constructs the services at    *)
(* import; EmailService.__init__ sets self.active_campaigns = {} and       *)
(* starts a new scheduler thread.  Nothing is written to disk by           *)
(* start_campaign and nothing is read back at construction: the sheet      *)
(* (status, notes) is all that outlives the process.                       *)

\* the process ends and is started again: EmailService.__init__
Restart ==
    /\ active_campaigns' = << >>
    /\ tickPc' = "idle"
    /\ tickNow' = 0
    /\ tickItems' = << >>
    /\ tickCur' = NoCur
    /\ replyPc' = "idle"
    /\ replyCur' = NoArg
    /\ lastOp' = Op("restart", [now |-> now], {})
    /\ UNCHANGED <<payVars, socialVars, sheet, now, status, last_note>>

InitRestart == InitWith({"L1"}) /\ config = FullConfig

NextRestart ==
    \/ Advance
    \/ ConcStart
    \/ ProcessFollowUps
    \/ Restart

SpecRestart == InitRestart /\ [][NextRestart]_vars

(* C28: campaign state survives a restart of the process: a lead that was  *)
(* awaiting a follow-up before the restart still has its campaign record   *)
(* (follow_up_count, next_follow_up) after it, so that the later ticks     *)
(* still send its remaining follow-ups and close it.                       *)
C28_RestartKeepsCampaigns ==
    [][lastOp'.op = "restart" =>
          \A l \in DOMAIN active_campaigns :
              /\ l \in DOMAIN active_campaigns'
              /\ active_campaigns'[l] = active_campaigns[l]]_vars

----------------------------------------------------------------------------
(* The scheduler thread under its daily schedule.  run_scheduler registers *)
(* _process_follow_ups with schedule.every().day.at("10:00") and loops     *)
(* over schedule.run_pending() and time.sleep(60) with no try around       *)
(* either: the job runs once a day for as long as the thread lives, and an *)
(* exception raised by the job leaves the loop and ends the thread.  The   *)
(* web thread handles replies in between.                                  *)

\* the clock of the daily specification stops at this day
MaxDailyDay == 13

\* the day's run of the job on the scheduler thread
DailyTickBegin == now > tickNow /\ TickBegin

\* midnight: the day's run is over, or the scheduler thread has ended
DailyAdvance ==
    /\ now < MaxDailyDay
    /\ tickPc = "dead" \/ (tickPc = "idle" /\ (tickNow = now \/ now = 0))
    /\ now' = now + 1
    /\ lastOp' = Op("advance", [day |-> now + 1], {})
    /\ UNCHANGED <<payVars, socialVars, sheet, active_campaigns, status, last_note, threadVars>>

\* a reply of the lead that answers
DailyReplyBegin == ReplyBegin /\ lastOp'.arg.from = Email("L1")

InitDaily == InitWith({"L1", "L2"}) /\ config = FullConfig

NextDaily ==
    \/ DailyAdvance
    \/ ConcStart
    \/ DailyTickBegin
    \/ TickVisit
    \/ TickSend
    \/ TickEnd
    \/ DailyReplyBegin
    \/ ReplyFinish

\* time passes, and a thread that can take its next step takes it
FairDaily ==
    /\ WF_vars(DailyAdvance)
    /\ WF_vars(DailyTickBegin)
    /\ WF_vars(TickVisit)
    /\ WF_vars(TickSend)
    /\ WF_vars(TickEnd)
    /\ WF_vars(ReplyFinish)

SpecDaily == InitDaily /\ [][NextDaily]_vars /\ FairDaily

(* C29: under a fair daily tick every campaign is eventually processed to  *)
(* its end: whatever fails while one lead is processed, the other leads    *)
(* are still processed and the scheduler thread keeps running its later    *)
(* ticks, so every lead eventually leaves active_campaigns for good.       *)
C29_EveryCampaignEventuallyLeaves ==
    \A l \in {"L1", "L2"} : <>[](l \notin DOMAIN active_campaigns)

====
